---- MODULE Spec2Model ----
(***************************************************************************)
(* A model of cosmolog: the CosmologEvent validation / coercion pipeline,  *)
(* its JSON wire format, the Cosmologger capture adapter with the          *)
(* CosmologgerFormatter, the `human` line processor of bin/cli.py, the     *)
(* CosmologgerHumanFormatter, and setup_logging.                           *)
(*                                                                         *)
(* Text is a sequence of one-character strings, so that the regular        *)
(* expressions and str.format of the source are computed character by      *)
(* character.  A Python value is a record [t, n, c, items]: its type name, *)
(* its number (numeric types, datetime wall clock), its characters (str,   *)
(* the zone of a datetime, the literal of a non-finite float) and its      *)
(* items (dict).                                                           *)
(***************************************************************************)
EXTENDS Integers, Sequences, FiniteSets, TLC

VARIABLES
    py,         \* major version of the interpreter running the package: 2 or 3
    pc,         \* position of the scenario under way
    how,        \* event scenario: "init" (constructor), "from_dict", "from_json"
    kwargs,     \* event scenario: the keyword arguments / the dict given
    line,       \* event scenario: the JSON line given to from_json
    result,     \* event scenario: outcome of the construction
    wire,       \* event scenario: <<e.json>> once serialized
    reparsed,   \* event scenario: outcome of from_json(e.json)
    verbosity,  \* human: the --verbosity option
    datefmt,    \* human: the --datefmt option (<<>>: not given)
    no_color,   \* human: the --no-color flag
    nread,      \* human: lines read from stdin so far
    last,       \* human: <<the line read last>>
    out,        \* human: what the last line wrote to stdout
    err,        \* human: what the last line wrote to stderr
    exit_code,  \* human: -1 while running, then the exit code
    root_level, \* logger: the threshold of the root logger (host severity)
    ncalls,     \* logger: logging calls made so far
    call,       \* logger: <<the call made last>>
    stream,     \* logger: the wire lines the handler wrote for it
    errchan,    \* logger: the failure reports written to sys.stderr for it
    caller,     \* logger: what the call raised into its caller, if anything
    extra_after, \* logger: <<the caller's `extra` mapping after the call>>
    colored,    \* rendering: the color option of the CosmologgerHumanFormatter
    shown,      \* rendering: outcome of its event_format(e)
    echoed,     \* rendering: outcome of cli.process(e.json, ...)
    subject,    \* colors: the string given to _clear_colors
    once,       \* colors: <<_clear_colors(subject)>>
    twice,      \* colors: <<_clear_colors(_clear_colors(subject))>>
    config,     \* setup: the process-wide logging configuration
    loggers,    \* setup: the names the host logging manager has registered
    made        \* setup: the last setup_logging or Cosmologger call, with its outcome

eventVars == <<how, kwargs, line, result, wire, reparsed>>
humanVars == <<verbosity, datefmt, no_color, nread, last, out, err, exit_code>>
logVars == <<root_level, ncalls, call, stream, errchan, caller, extra_after>>
renderVars == <<colored, shown, echoed>>
colorVars == <<subject, once, twice>>
setupVars == <<config, loggers, made>>

-----------------------------------------------------------------------------
(* Bounds of the model. *)
MaxNameLen == 2      \* longest enumerated stream_name / origin / payload key
MaxPayload == 2      \* most entries in an enumerated payload
MaxInstant == 26     \* latest enumerated instant, in hours since the epoch
MaxLines == 3        \* most lines read from stdin by `human`
MaxCalls == 2        \* most logging calls made
MaxPieces == 3       \* most pieces of a string given to _clear_colors

-----------------------------------------------------------------------------
(* Python values. *)
PyNone == [t |-> "NoneType", n |-> 0, c |-> <<>>, items |-> <<>>]
PyBool(b) == [t |-> "bool", n |-> IF b THEN 1 ELSE 0, c |-> <<>>, items |-> <<>>]
PyInt(i) == [t |-> "int", n |-> i, c |-> <<>>, items |-> <<>>]
PyFloat(x) == [t |-> "float", n |-> x, c |-> <<>>, items |-> <<>>]
PyNaN == [t |-> "float", n |-> 0, c |-> <<"n", "a", "n">>, items |-> <<>>]
PyInf == [t |-> "float", n |-> 0, c |-> <<"i", "n", "f">>, items |-> <<>>]
PyStr(s) == [t |-> "str", n |-> 0, c |-> s, items |-> <<>>]
PyDict(kv) == [t |-> "dict", n |-> 0, c |-> <<>>, items |-> kv]
PyList(len) == [t |-> "list", n |-> len, c |-> <<>>, items |-> <<>>]
\* A datetime: n is the wall-clock reading in hours, c the tzinfo
\* (<<>> naive, else the offset as written in ISO-8601).
PyDateTime(wall, tz) == [t |-> "datetime", n |-> wall, c |-> tz, items |-> <<>>]

IsFinite(v) == v.c = <<>>

\* bool(v): the truth value `origin or ...` and `if fmt:` test.
Truthy(v) ==
    CASE v.t = "NoneType" -> FALSE
      [] v.t \in {"bool", "int"} -> v.n # 0
      [] v.t = "float" -> ~IsFinite(v) \/ v.n # 0
      [] v.t = "str" -> v.c # <<>>
      [] v.t = "dict" -> v.items # <<>>
      [] v.t = "list" -> v.n # 0
      [] OTHER -> TRUE

\* An outcome: a returned value (val = <<v>>) or a raised exception.
Return(v) == [exc |-> "", args |-> <<>>, val |-> <<v>>]
Raise(e, a) == [exc |-> e, args |-> a, val |-> <<>>]
NoOutcome == [exc |-> "", args |-> <<>>, val |-> <<>>]
Returned(o) == o.val # <<>>
Raised(o) == o.exc # ""

\* F(x), the value x being computed once.
With(x, F(_)) == CHOOSE r \in {F(v) : v \in {x}} : TRUE

-----------------------------------------------------------------------------
(* Characters and the regular expressions of the validators. *)
\* [a-zA-Z0-9]
AlnumChars ==
    {"a", "b", "c", "d", "e", "f", "g", "h", "i", "j", "k", "l", "m", "n", "o",
     "p", "q", "r", "s", "t", "u", "v", "w", "x", "y", "z",
     "A", "B", "C", "D", "E", "F", "G", "H", "I", "J", "K", "L", "M", "N", "O",
     "P", "Q", "R", "S", "T", "U", "V", "W", "X", "Y", "Z",
     "0", "1", "2", "3", "4", "5", "6", "7", "8", "9"}
Digits == <<"0", "1", "2", "3", "4", "5", "6", "7", "8", "9">>

\* [a-zA-Z0-9._-], the class of stream_name and payload key ([a-zA-Z0-9_\-\.])
NameChars == AlnumChars \cup {".", "_", "-"}
\* [A-Z0-9_-] under re.IGNORECASE, the class of an origin label
LabelChars == AlnumChars \cup {"_", "-"}

\* Length of the longest run of characters of class that starts at s[from].
Run(s, from, class) ==
    LET stops == {i \in from..Len(s) : s[i] \notin class}
    IN  IF from > Len(s) THEN 0
        ELSE IF stops = {} THEN Len(s) - from + 1
        ELSE (CHOOSE i \in stops : \A j \in stops : i <= j) - from

\* re.match(r'[a-zA-Z0-9][a-zA-Z0-9._-]+', s): the length of group(0), or
\* -1 for None.  The + is greedy and nothing follows it.
ReMatchName(s) ==
    IF Len(s) >= 1 /\ s[1] \in AlnumChars /\ Run(s, 2, NameChars) >= 1
    THEN 1 + Run(s, 2, NameChars)
    ELSE -1

LabelMin == 1
LabelMax == 63
\* pattern.match(part) for "(?!-)[A-Z0-9_-]{1,63}(?<!-)$": some count k of
\* class characters, not starting and not ending with '-', after which `$`
\* matches: at the end of the string, or just before a newline that ends it.
ReMatchLabel(part) ==
    /\ Len(part) >= 1
    /\ part[1] # "-"
    /\ \E k \in LabelMin..LabelMax :
        /\ k <= Run(part, 1, LabelChars)
        /\ part[k] # "-"
        /\ \/ k = Len(part)
           \/ k = Len(part) - 1 /\ part[Len(part)] = "\n"

\* s.split(sep) for a one-character separator: the texts between
\* consecutive separators, the two ends of s counting as separators.
Split(s, sep) ==
    LET cuts == {0, Len(s) + 1} \cup {i \in 1..Len(s) : s[i] = sep}
        Cut(k) == CHOOSE p \in cuts : Cardinality({q \in cuts : q < p}) = k
    IN  [k \in 1..(Cardinality(cuts) - 1) |->
            SubSeq(s, Cut(k - 1) + 1, Cut(k) - 1)]

-----------------------------------------------------------------------------
(* CosmologEvent: the validators. *)
MaxOriginLen == 255

ValidationError(msg) == Raise("CosmologgerException", <<"ValidationError", msg>>)

\* CosmologEvent._validate_origin
validate_origin(origin) ==
    IF origin.t \notin {"str", "dict", "list"}
    THEN Raise("TypeError", <<"object has no len()">>)
    ELSE IF (CASE origin.t = "str" -> Len(origin.c)
               [] origin.t = "dict" -> Len(origin.items)
               [] OTHER -> origin.n) > MaxOriginLen
    THEN ValidationError("Invalid origin: Origin length cannot exceed 255 characters")
    ELSE IF origin.t # "str"
    THEN Raise("AttributeError", <<"object has no attribute 'split'">>)
    ELSE IF \E i \in 1..Len(Split(origin.c, ".")) :
                ~ReMatchLabel(Split(origin.c, ".")[i])
    THEN ValidationError("Origin must be a fully qualified domain name")
    ELSE Return(PyNone)

\* CosmologEvent._validate_stream_name
validate_stream_name(stream_name) ==
    IF stream_name.t # "str"
    THEN Raise("TypeError", <<"expected string or bytes-like object">>)
    ELSE IF ReMatchName(stream_name.c) = -1
            \/ ReMatchName(stream_name.c) # Len(stream_name.c)
    THEN ValidationError("Invalid stream_name: Stream name can contain alphanumeric characters and _ - .")
    ELSE Return(PyNone)

\* CosmologEvent._validate_payload_key
validate_payload_key(key) ==
    IF ReMatchName(key) = -1 \/ ReMatchName(key) # Len(key)
    THEN ValidationError("Invalid payload key: Payload keys can contain alphanumeric characters, underscores, dashes, and dots.")
    ELSE Return(PyBool(TRUE))

\* CosmologEvent._primitive_types
primitive_types == {"bool", "int", "float", "str", "NoneType"}

\* CosmologEvent._validate_payload_value
validate_payload_value(value) ==
    IF value.t \notin primitive_types
    THEN ValidationError("Invalid payload value: Payload values can be any scalar type.")
    ELSE Return(PyBool(TRUE))

\* The dict comprehension of _validate_payload: the items in order, the key
\* of each before its value; the first failure is raised.
RECURSIVE validate_items(_, _)
validate_items(items, i) ==
    IF i > Len(items) THEN Return(PyNone)
    ELSE IF Raised(validate_payload_key(items[i][1]))
    THEN validate_payload_key(items[i][1])
    ELSE IF Raised(validate_payload_value(items[i][2]))
    THEN validate_payload_value(items[i][2])
    ELSE validate_items(items, i + 1)

\* CosmologEvent._validate_payload
validate_payload(payload) ==
    IF payload.t # "dict"
    THEN Raise("CosmologgerException",
               <<"Invalid payload: Payload must be a dictionary">>)
    ELSE validate_items(payload.items, 1)

-----------------------------------------------------------------------------
(* CosmologEvent: timestamps.  One hour is the unit of time of the model;  *)
(* the text of _default_datefmt is DDTHHZ: the day and the hour of the     *)
(* wall clock, two digits each.                                            *)
HoursPerDay == 24

DigitVal(ch) == CHOOSE i \in 0..9 : Digits[i + 1] = ch
IsDigit(ch) == \E i \in 1..10 : Digits[i] = ch
TwoDigits(k) == <<Digits[((k \div 10) % 10) + 1], Digits[(k % 10) + 1]>>

RECURSIVE DigitsValue(_)
DigitsValue(s) ==
    IF s = <<>> THEN 0
    ELSE 10 * DigitsValue(SubSeq(s, 1, Len(s) - 1)) + DigitVal(s[Len(s)])

RECURSIVE NumStr(_)
NumStr(k) == IF k < 10 THEN <<Digits[k + 1]>>
             ELSE NumStr(k \div 10) \o <<Digits[(k % 10) + 1]>>

UTC == <<"Z">>
\* The utcoffset of a tzinfo written as an ISO-8601 suffix.
TzSuffixes == {<<"Z">>, <<"+", "0", "1">>, <<"-", "0", "1">>}
UtcOffset(tz) ==
    CASE tz = <<"Z">> -> 0
      [] tz[1] = "+" -> DigitsValue(SubSeq(tz, 2, Len(tz)))
      [] OTHER -> 0 - DigitsValue(SubSeq(tz, 2, Len(tz)))

\* dt.strftime(fmt): %d is the day and %H the hour of the wall clock, any
\* other element of fmt is literal.
RECURSIVE strftime(_, _)
strftime(dt, fmt) ==
    IF fmt = <<>> THEN <<>>
    ELSE (CASE Head(fmt) = "%d" -> TwoDigits(dt.n \div HoursPerDay)
            [] Head(fmt) = "%H" -> TwoDigits(dt.n % HoursPerDay)
            [] OTHER -> <<Head(fmt)>>) \o strftime(dt, Tail(fmt))

\* CosmologEvent._default_datefmt, '%Y-%m-%dT%H:%M:%S.%fZ'
event_default_datefmt == <<"%d", "T", "%H", "Z">>

\* float(s) of a str.
float(s) ==
    IF s # <<>> /\ \A i \in 1..Len(s) : IsDigit(s[i])
    THEN Return(PyFloat(DigitsValue(s)))
    ELSE IF s = <<"n", "a", "n">> THEN Return(PyNaN)
    ELSE IF s = <<"i", "n", "f">> THEN Return(PyInf)
    ELSE Raise("ValueError", <<"could not convert string to float">>)

\* datetime.utcfromtimestamp(x): a naive datetime reading UTC.
utcfromtimestamp(x) ==
    IF IsFinite(x) THEN Return(PyDateTime(x.n, <<>>))
    ELSE IF x.c = <<"n", "a", "n">>
    THEN Raise("ValueError", <<"Invalid value NaN (not a number)">>)
    ELSE Raise("OverflowError", <<"timestamp out of range for platform time_t">>)

\* dateutil.parser.parse(s, ignoretz): the date strings of the model are
\* DDTHH followed by nothing (naive), Z or a signed offset.
dateparse(s, ignoretz) ==
    IF /\ Len(s) >= 5
       /\ IsDigit(s[1]) /\ IsDigit(s[2]) /\ s[3] = "T"
       /\ IsDigit(s[4]) /\ IsDigit(s[5])
       /\ DigitsValue(SubSeq(s, 4, 5)) < HoursPerDay
       /\ SubSeq(s, 6, Len(s)) \in TzSuffixes \cup {<<>>}
    THEN Return(PyDateTime(
             DigitsValue(SubSeq(s, 1, 2)) * HoursPerDay
                 + DigitsValue(SubSeq(s, 4, 5)),
             IF ignoretz THEN <<>> ELSE SubSeq(s, 6, Len(s))))
    ELSE Raise("ValueError", <<"Unknown string format">>)

\* CosmologEvent._coerce_timestamp; now is the reading of datetime.now(utc).
to_datetime(t, now) ==
    CASE t.t = "datetime" -> Return(t)
      [] t.t = "str" /\ t.c = <<"n", "o", "w">> -> Return(PyDateTime(now, UTC))
      [] t.t = "str" /\ t.c # <<"n", "o", "w">> ->
            With(float(t.c), LAMBDA x :
                IF Raised(x) THEN dateparse(t.c, FALSE)
                ELSE IF utcfromtimestamp(x.val[1]).exc = "ValueError"
                THEN dateparse(t.c, FALSE)
                ELSE utcfromtimestamp(x.val[1]))
      [] t.t \in {"int", "float", "bool"} -> utcfromtimestamp(t)
      [] OTHER -> Raise("CosmologgerException", <<"Unable to parse to UTC time">>)

coerce_timestamp(t, now) ==
    With(to_datetime(t, now), LAMBDA dt :
        IF Raised(dt) THEN dt
        ELSE Return(PyStr(strftime(PyDateTime(dt.val[1].n, UTC),
                                   event_default_datefmt))))

-----------------------------------------------------------------------------
(* Dicts.  The items of a dict are <<key, value>> pairs in insertion order, *)
(* with distinct keys.  The names of the seven fields of an event are      *)
(* single tokens.                                                          *)
HasKey(items, k) == \E i \in 1..Len(items) : items[i][1] = k
Get(items, k) == items[CHOOSE i \in 1..Len(items) : items[i][1] = k][2]
GetOr(items, k, default) == IF HasKey(items, k) THEN Get(items, k) ELSE default
Keys(items) == {items[i][1] : i \in 1..Len(items)}

\* d[k] = v: a present key keeps its place, a new one goes last.
SetItem(items, k, v) ==
    IF HasKey(items, k)
    THEN [i \in 1..Len(items) |->
             IF items[i][1] = k THEN <<k, v>> ELSE items[i]]
    ELSE Append(items, <<k, v>>)

\* a == b of Python.  Two NaN compare unequal; the identity shortcut of
\* container comparison never applies here, the operands being distinct
\* objects.  dict equality is equality of the mappings, whatever the order.
RECURSIVE PyEq(_, _)
PyEq(a, b) ==
    CASE a.t = "float" /\ ~IsFinite(a) /\ a.c = <<"n", "a", "n">> -> FALSE
      [] b.t = "float" /\ ~IsFinite(b) /\ b.c = <<"n", "a", "n">> -> FALSE
      [] a.t \in {"bool", "int", "float"} /\ b.t \in {"bool", "int", "float"} ->
            a.n = b.n /\ a.c = b.c
      [] a.t = "dict" /\ b.t = "dict" ->
            /\ Keys(a.items) = Keys(b.items)
            /\ \A k \in Keys(a.items) : PyEq(Get(a.items, k), Get(b.items, k))
      [] OTHER -> a.t = b.t /\ a.n = b.n /\ a.c = b.c

-----------------------------------------------------------------------------
(* JSON.  A document is the syntax tree of a JSON text: [j, n, c, members]. *)
(* A number keeps its literal: c = <<".">> when it is written with a       *)
(* fraction, and the non-standard literals NaN and Infinity.               *)
JsonNull == [j |-> "null", n |-> 0, c |-> <<>>, members |-> <<>>]
JsonTrue == [j |-> "true", n |-> 0, c |-> <<>>, members |-> <<>>]
JsonFalse == [j |-> "false", n |-> 0, c |-> <<>>, members |-> <<>>]
JsonNumber(k, lit) == [j |-> "number", n |-> k, c |-> lit, members |-> <<>>]
JsonString(s) == [j |-> "string", n |-> 0, c |-> s, members |-> <<>>]
JsonArray(len) == [j |-> "array", n |-> len, c |-> <<>>, members |-> <<>>]
JsonObject(m) == [j |-> "object", n |-> 0, c |-> <<>>, members |-> m]

\* A line of text: a JSON document, or text that is not JSON.
JsonLine(doc) == [json |-> TRUE, doc |-> doc]
NotJsonLine == [json |-> FALSE, doc |-> JsonNull]

\* json.JSONEncoder: the document json.dumps writes for a value.
RECURSIVE encode(_)
encode(v) ==
    CASE v.t = "NoneType" -> JsonNull
      [] v.t = "bool" -> IF v.n = 1 THEN JsonTrue ELSE JsonFalse
      [] v.t = "int" -> JsonNumber(v.n, <<>>)
      [] v.t = "float" ->
            IF IsFinite(v) THEN JsonNumber(v.n, <<".">>)
            ELSE IF v.c = <<"n", "a", "n">> THEN JsonNumber(0, <<"N", "a", "N">>)
            ELSE JsonNumber(0, <<"I", "n", "f", "i", "n", "i", "t", "y">>)
      [] v.t = "str" -> JsonString(v.c)
      [] v.t = "list" -> JsonArray(v.n)
      [] OTHER -> JsonObject([i \in 1..Len(v.items) |->
                                 <<v.items[i][1], encode(v.items[i][2])>>])

\* json.dumps(v); a datetime is not serializable.
dumps(v) ==
    IF v.t = "datetime" \/ \E i \in 1..Len(v.items) : v.items[i][2].t = "datetime"
    THEN Raise("TypeError", <<"Object of type datetime is not JSON serializable">>)
    ELSE Return(JsonLine(encode(v)))

\* json.JSONDecoder: the value of a document.
RECURSIVE decode(_)
decode(d) ==
    CASE d.j = "null" -> PyNone
      [] d.j = "true" -> PyBool(TRUE)
      [] d.j = "false" -> PyBool(FALSE)
      [] d.j = "number" ->
            IF d.c = <<>> THEN PyInt(d.n)
            ELSE IF d.c = <<".">> THEN PyFloat(d.n)
            ELSE IF d.c = <<"N", "a", "N">> THEN PyNaN
            ELSE PyInf
      [] d.j = "string" -> PyStr(d.c)
      [] d.j = "array" -> PyList(d.n)
      [] OTHER -> PyDict([i \in 1..Len(d.members) |->
                             <<d.members[i][1], decode(d.members[i][2])>>])

\* json.loads(j)
loads(j) ==
    IF j.json THEN Return(decode(j.doc))
    ELSE Raise("ValueError", <<"Expecting value: line 1 column 1 (char 0)">>)

-----------------------------------------------------------------------------
(* CosmologEvent: construction. *)
DEFAULT_SCHEMA_VERSION == 0
FieldNames == {<<"version">>, <<"stream_name">>, <<"origin">>, <<"timestamp">>,
               <<"format">>, <<"level">>, <<"payload">>}

\* socket.getfqdn() of the host of the model.
get_default_origin == PyStr(<<"a", ".", "b">>)

\* CosmologEvent.__init__ with the keyword arguments kw (the items of a
\* dict); the event is the dict the constructor fills.
CosmologEvent(kw, now) ==
    LET version == GetOr(kw, <<"version">>, PyInt(DEFAULT_SCHEMA_VERSION))
        stream_name == GetOr(kw, <<"stream_name">>, PyNone)
        origin0 == GetOr(kw, <<"origin">>, PyNone)
        timestamp == GetOr(kw, <<"timestamp">>, PyNone)
        format == GetOr(kw, <<"format">>, PyNone)
        level == GetOr(kw, <<"level">>, PyNone)
        payload == GetOr(kw, <<"payload">>, PyDict(<<>>))
        origin == IF Truthy(origin0) THEN origin0 ELSE get_default_origin
    IN  IF ~(Keys(kw) \subseteq FieldNames)
        THEN Raise("TypeError", <<"__init__() got an unexpected keyword argument">>)
        ELSE With(validate_origin(origin), LAMBDA vo :
             IF Raised(vo) THEN vo
        ELSE With(validate_stream_name(stream_name), LAMBDA vs :
             IF Raised(vs) THEN vs
        ELSE With(validate_payload(payload), LAMBDA vp :
             IF Raised(vp) THEN vp
        ELSE With(coerce_timestamp(timestamp, now), LAMBDA ts :
             IF Raised(ts) THEN ts
        ELSE Return(PyDict(<< <<<<"version">>, version>>,
                              <<<<"stream_name">>, stream_name>>,
                              <<<<"origin">>, origin>>,
                              <<<<"timestamp">>, ts.val[1]>>,
                              <<<<"format">>, format>>,
                              <<<<"level">>, level>>,
                              <<<<"payload">>, payload>> >>))))))

\* from_dict with the dict passed as the one positional argument.
from_dict_positional(d, now) == CosmologEvent(<< <<<<"version">>, d>> >>, now)

\* CosmologEvent.from_dict: cls(**d)
from_dict(d, now) ==
    IF d.t # "dict"
    THEN Raise("TypeError", <<"argument after ** must be a mapping">>)
    ELSE CosmologEvent(d.items, now)

\* CosmologEvent.from_json
from_json(j, now) ==
    With(loads(j), LAMBDA d :
        IF d.exc = "ValueError" THEN Raise("CosmologgerException", d.args)
        ELSE from_dict(d.val[1], now))

\* CosmologEvent.json
json(e) == dumps(e)

-----------------------------------------------------------------------------
(* The enumerated inputs of the event scenario: a valid event with one     *)
(* field varied over the values of interest, left out, or with a key added. *)
Strings(alphabet, maxlen) == UNION {[1..k -> alphabet] : k \in 0..maxlen}
Repeat(ch, k) == [i \in 1..k |-> ch]
\* a.a.a ... of k characters
Dotted(k) == [i \in 1..k |-> IF i % 2 = 1 THEN "a" ELSE "."]
RemoveKey(items, k) == SelectSeq(items, LAMBDA it : it[1] # k)

Instants == (MaxInstant - 4)..MaxInstant
IsoText(wall, suffix) ==
    TwoDigits(wall \div HoursPerDay) \o <<"T">>
        \o TwoDigits(wall % HoursPerDay) \o suffix

StreamNameInputs ==
    {PyStr(s) : s \in Strings({"a", ".", "%", "\n"}, MaxNameLen)}
        \cup {PyNone, PyInt(5)}

OriginInputs ==
    {PyStr(s) : s \in Strings({"a", "-", ".", "\n"}, MaxNameLen + 1)}
        \cup {PyStr(Dotted(MaxOriginLen)), PyStr(Dotted(MaxOriginLen + 2)),
              PyStr(Repeat("a", LabelMax)), PyStr(Repeat("a", LabelMax + 1)),
              PyStr(Repeat("a", LabelMax) \o <<"\n">>),
              PyNone, PyInt(5), PyList(0), PyList(1)}

PayloadValueInputs ==
    {PyNone, PyBool(TRUE), PyInt(1), PyFloat(1), PyNaN, PyStr(<<"a">>),
     PyDict(<<>>), PyList(1)}

PayloadInputs ==
    {PyDict(<< <<k, v>> >>) :
        k \in Strings({"a", "_", "."}, MaxNameLen), v \in PayloadValueInputs}
    \cup {PyDict(items) : items \in
            {it \in UNION {[1..k -> {<<"a", "a">>, <<"a", ".">>, <<"a">>}
                                     \X {PyNone, PyInt(1), PyNaN, PyDict(<<>>)}]
                           : k \in 0..MaxPayload} :
                \A i, j \in 1..Len(it) : i # j => it[i][1] # it[j][1]}}
    \cup {PyList(0), PyList(1), PyNone, PyStr(<<"a">>)}

TimestampInputs ==
    {PyNone, PyList(1), PyStr(<<"n", "o", "w">>), PyStr(<<"x">>), PyStr(<<>>),
     PyNaN, PyInf, PyStr(<<"n", "a", "n">>), PyStr(<<"i", "n", "f">>)}
    \cup UNION {
        {PyInt(i), PyFloat(i), PyStr(NumStr(i)), PyDateTime(i, <<>>),
         PyStr(IsoText(i, <<>>))}
        \cup {PyDateTime(i + UtcOffset(tz), tz) : tz \in TzSuffixes}
        \cup {PyStr(IsoText(i + UtcOffset(tz), tz)) : tz \in TzSuffixes}
        : i \in Instants}

FormatInputs ==
    {PyNone, PyStr(<<>>), PyStr(<<"x">>), PyStr(<<"{", "a", "a", "}">>), PyInt(1)}
LevelInputs == {PyInt(400), PyInt(50), PyNone, PyStr(<<"I", "N", "F", "O">>)}
VersionInputs == {PyInt(0), PyInt(1)}

BaseEvent ==
    << <<<<"version">>, PyInt(0)>>,
       <<<<"stream_name">>, PyStr(<<"a", "b">>)>>,
       <<<<"origin">>, PyStr(<<"a">>)>>,
       <<<<"timestamp">>, PyStr(IsoText(MaxInstant, <<"Z">>))>>,
       <<<<"format">>, PyStr(<<"x">>)>>,
       <<<<"level">>, PyInt(400)>>,
       <<<<"payload">>, PyDict(<<>>)>> >>

FieldInputs(name) ==
    CASE name = <<"version">> -> VersionInputs
      [] name = <<"stream_name">> -> StreamNameInputs
      [] name = <<"origin">> -> OriginInputs
      [] name = <<"timestamp">> -> TimestampInputs
      [] name = <<"format">> -> FormatInputs
      [] name = <<"level">> -> LevelInputs
      [] OTHER -> PayloadInputs

EventInputs ==
    UNION {{SetItem(BaseEvent, name, v) : v \in FieldInputs(name)}
           : name \in FieldNames}
    \cup {RemoveKey(BaseEvent, name) : name \in FieldNames}
    \cup {Append(BaseEvent, <<<<"foo">>, PyInt(1)>>)}

\* The lines given to from_json: text that is not JSON, JSON documents that
\* are not objects, and the objects that spell the enumerated dicts.
LineInputs ==
    {NotJsonLine, JsonLine(JsonNumber(5, <<>>)), JsonLine(JsonString(<<"a">>)),
     JsonLine(JsonArray(1)), JsonLine(JsonNull)}
    \cup {dumps(PyDict(kw)).val[1] : kw \in {k \in EventInputs :
                                               Returned(dumps(PyDict(k)))}}

-----------------------------------------------------------------------------
(* The event scenario: an event is constructed, serialized and parsed back. *)
IdleEvent ==
    /\ how = "none" /\ kwargs = <<>> /\ line = NotJsonLine
    /\ result = NoOutcome /\ wire = <<>> /\ reparsed = NoOutcome

IdleHuman ==
    /\ verbosity = 0 /\ datefmt = <<>> /\ no_color = FALSE
    /\ nread = 0 /\ last = <<>> /\ out = <<>> /\ err = <<>> /\ exit_code = -1

IdleLog ==
    /\ root_level = 0 /\ ncalls = 0 /\ call = <<>> /\ stream = <<>>
    /\ errchan = <<>> /\ caller = NoOutcome /\ extra_after = <<>>

IdleRender == colored = FALSE /\ shown = NoOutcome /\ echoed = NoOutcome

IdleColors == subject = <<>> /\ once = <<>> /\ twice = <<>>

NoCall == [op |-> "none", args |-> <<>>, outcome |-> NoOutcome]

IdleSetup == config = <<>> /\ loggers = {} /\ made = NoCall

InitEvent ==
    /\ py = 3
    /\ IdleHuman
    /\ IdleLog
    /\ IdleRender
    /\ IdleColors
    /\ IdleSetup
    /\ pc = "start"
    /\ how \in {"init", "from_dict", "from_json"}
    /\ IF how = "from_json"
       THEN kwargs = <<>> /\ line \in LineInputs
       ELSE kwargs \in EventInputs /\ line = NotJsonLine
    /\ result = NoOutcome
    /\ wire = <<>>
    /\ reparsed = NoOutcome

\* e = CosmologEvent(**kwargs)
Construct ==
    /\ pc = "start" /\ how = "init"
    /\ \E now \in Instants : result' = CosmologEvent(kwargs, now)
    /\ pc' = "built"
    /\ UNCHANGED <<py, how, kwargs, line, wire, reparsed, humanVars, logVars,
                   renderVars, colorVars, setupVars>>

\* e = CosmologEvent.from_dict(kwargs)
FromDict ==
    /\ pc = "start" /\ how = "from_dict"
    /\ \E now \in Instants : result' = from_dict(PyDict(kwargs), now)
    /\ pc' = "built"
    /\ UNCHANGED <<py, how, kwargs, line, wire, reparsed, humanVars, logVars,
                   renderVars, colorVars, setupVars>>

\* e = CosmologEvent.from_json(line)
FromJson ==
    /\ pc = "start" /\ how = "from_json"
    /\ \E now \in Instants : result' = from_json(line, now)
    /\ pc' = "built"
    /\ UNCHANGED <<py, how, kwargs, line, wire, reparsed, humanVars, logVars,
                   renderVars, colorVars, setupVars>>

\* j = e.json
Serialize ==
    /\ pc = "built" /\ Returned(result)
    /\ wire' = <<json(result.val[1])>>
    /\ pc' = "serialized"
    /\ UNCHANGED <<py, how, kwargs, line, result, reparsed, humanVars, logVars,
                   renderVars, colorVars, setupVars>>

\* CosmologEvent.from_json(j)
Reparse ==
    /\ pc = "serialized" /\ Returned(wire[1])
    /\ \E now \in Instants : reparsed' = from_json(wire[1].val[1], now)
    /\ pc' = "reparsed"
    /\ UNCHANGED <<py, how, kwargs, line, result, wire, humanVars, logVars,
                   renderVars, colorVars, setupVars>>

NextEvent == Construct \/ FromDict \/ FromJson \/ Serialize \/ Reparse

vars == <<py, pc, eventVars, humanVars, logVars, renderVars, colorVars,
          setupVars>>

SpecEvent == InitEvent /\ [][NextEvent]_vars

-----------------------------------------------------------------------------
(* The severity ranks and their names. *)
FATAL == 100
ERROR == 200
WARN == 300
INFO == 400
DEBUG == 500
TRACE == 600
LevelRanks == {FATAL, ERROR, WARN, INFO, DEBUG, TRACE}

\* LEVELS[rank], for a rank of the registry
LEVELS(rank) ==
    CASE rank = FATAL -> <<"FATAL">>
      [] rank = ERROR -> <<"ERROR">>
      [] rank = WARN -> <<"WARN">>
      [] rank = INFO -> <<"INFO">>
      [] rank = DEBUG -> <<"DEBUG">>
      [] OTHER -> <<"TRACE">>

\* Whether a value is, as a dict key, one of the ranks: 400, 400.0.
IsRank(v) == v.t \in {"int", "float", "bool"} /\ IsFinite(v) /\ v.n \in LevelRanks

-----------------------------------------------------------------------------
(* Text rendering: colors, str() and str.format. *)
CRESET == <<"ESC", "[", "0", "m">>
CRED == <<"ESC", "[", "3", "1", "m">>
CGREEN == <<"ESC", "[", "3", "2", "m">>
CYELLOW == <<"ESC", "[", "3", "3", "m">>
CBLUE == <<"ESC", "[", "3", "4", "m">>
BRED == <<"ESC", "[", "4", "1", "m">>
COLOR_CODES == <<CRESET, CRED, CGREEN, CYELLOW, CBLUE, BRED>>

\* _set_color(color)(text)
set_color(color, text) == color \o text \o CRESET
red(text) == set_color(CRED, text)
bg_red(text) == set_color(BRED, text)
green(text) == set_color(CGREEN, text)
yellow(text) == set_color(CYELLOW, text)
blue(text) == set_color(CBLUE, text)

\* str(v) of a scalar or of a list, whose elements the model leaves out
StrScalar(v) ==
    CASE v.t = "NoneType" -> <<"None">>
      [] v.t = "bool" -> IF v.n = 1 THEN <<"True">> ELSE <<"False">>
      [] v.t = "int" -> NumStr(v.n)
      [] v.t = "float" ->
            IF IsFinite(v) THEN NumStr(v.n) \o <<".", "0">> ELSE v.c
      [] v.t = "str" -> v.c
      [] OTHER -> <<"[", "]">>

\* repr(v) of a value in a dict: a str in quotes
Repr(v) ==
    IF v.t = "str" THEN <<"'">> \o v.c \o <<"'">>
    ELSE IF v.t = "dict" THEN <<"{", "}">>
    ELSE StrScalar(v)

\* 'k': v, ... of the items of a dict from the i-th on
RECURSIVE ReprItems(_, _)
ReprItems(items, i) ==
    IF i > Len(items) THEN <<>>
    ELSE (IF i > 1 THEN <<",", " ">> ELSE <<>>)
            \o <<"'">> \o items[i][1] \o <<"'", ":", " ">> \o Repr(items[i][2])
            \o ReprItems(items, i + 1)

\* str(v), what '{}'.format(v) writes
Str(v) ==
    IF v.t = "dict" THEN <<"{">> \o ReprItems(v.items, 1) \o <<"}">>
    ELSE StrScalar(v)

\* The text of an outcome with text put in front of it.
Prepend(text, o) ==
    With(o, LAMBDA r : IF Raised(r) THEN r ELSE Return(text \o r.val[1]))

\* One replacement field of a format string, looked up in the keyword
\* arguments kw.  The field name ends at the first '!' or ':'; what follows
\* is a conversion or a format spec, and none that the texts of the model
\* spell is a valid one for the str and int values they are applied to.
\* str.format (whole = FALSE) splits the field name at the first dot: an
\* empty or numeric first part is positional, the rest is an attribute of
\* the value.  _PayloadFormatter.get_field (whole = TRUE) looks the whole
\* field name up as one key.
format_field(field, kw, whole) ==
    LET marks == {i \in 1..Len(field) : field[i] \in {"!", ":"}}
        stop == IF marks = {} THEN Len(field) + 1
                ELSE CHOOSE i \in marks : \A j \in marks : i <= j
        name == SubSeq(field, 1, stop - 1)
        dots == {i \in 1..Len(name) : name[i] = "."}
        dot == IF dots = {} \/ whole THEN Len(name) + 1
               ELSE CHOOSE i \in dots : \A j \in dots : i <= j
        first == SubSeq(name, 1, dot - 1)
        rest == SubSeq(name, dot + 1, Len(name))
    IN  IF ~whole /\ \A i \in 1..Len(first) : IsDigit(first[i])
        THEN Raise("IndexError", <<"Replacement index out of range for positional args tuple">>)
        ELSE IF ~HasKey(kw, first) THEN Raise("KeyError", <<"key">>)
        ELSE IF dot <= Len(name) /\ rest = <<>>
        THEN Raise("ValueError", <<"Empty attribute in format string">>)
        ELSE IF dot <= Len(name)
        THEN Raise("AttributeError", <<"object has no attribute">>)
        ELSE IF stop <= Len(field)
        THEN Raise("ValueError", <<"Invalid format specifier">>)
        ELSE Return(Str(Get(kw, first)))

\* fmt.format(**kw) and string.Formatter.vformat(fmt, [], kw), from the
\* i-th character on: the literal text and the fields in order, the first
\* failure being raised.
RECURSIVE vformat(_, _, _, _)
vformat(fmt, i, kw, whole) ==
    IF i > Len(fmt) THEN Return(<<>>)
    ELSE IF fmt[i] \in {"{", "}"} /\ i < Len(fmt) /\ fmt[i + 1] = fmt[i]
    THEN Prepend(<<fmt[i]>>, vformat(fmt, i + 2, kw, whole))
    ELSE IF fmt[i] = "}"
    THEN Raise("ValueError", <<"Single '}' encountered in format string">>)
    ELSE IF fmt[i] = "{"
    THEN LET closes == {j \in (i + 1)..Len(fmt) : fmt[j] = "}"}
             close == CHOOSE j \in closes : \A k \in closes : j <= k
             field == format_field(SubSeq(fmt, i + 1, close - 1), kw, whole)
         IN  IF closes = {}
             THEN Raise("ValueError", <<"expected '}' before end of string">>)
             ELSE IF Raised(field) THEN field
             ELSE Prepend(field.val[1], vformat(fmt, close + 1, kw, whole))
    ELSE Prepend(<<fmt[i]>>, vformat(fmt, i + 1, kw, whole))

\* The text s without the occurrences of code, found left to right.
RECURSIVE RemoveAll(_, _)
RemoveAll(s, code) ==
    IF Len(s) < Len(code) THEN s
    ELSE IF SubSeq(s, 1, Len(code)) = code
    THEN RemoveAll(SubSeq(s, Len(code) + 1, Len(s)), code)
    ELSE <<Head(s)>> \o RemoveAll(Tail(s), code)

-----------------------------------------------------------------------------
(* bin/cli.py: the line processor. *)
\* cli._default_datefmt, '{}%b %d {}%H:%M:%S{}'.format(CRED, CGREEN, CRESET)
cli_default_datefmt == CRED \o <<"%d", " ">> \o CGREEN \o <<"%H">> \o CRESET

\* iso8601_to_datetime
iso8601_to_datetime(iso8601) ==
    With(dateparse(iso8601, TRUE), LAMBDA dt :
        IF Raised(dt) THEN dt ELSE Return(PyDateTime(dt.val[1].n, UTC)))

\* cli._format_timestamp; fmt = <<>> is the absent --datefmt
cli_format_timestamp(timestamp, fmt) ==
    With(iso8601_to_datetime(timestamp), LAMBDA dt :
        IF Raised(dt) THEN dt
        ELSE IF fmt # <<>> THEN Return(red(strftime(dt.val[1], fmt)))
        ELSE Return(strftime(dt.val[1], cli_default_datefmt)))

\* cli.LEVEL_COLORS[rank]
LEVEL_COLORS(rank) ==
    CASE rank \in {FATAL, ERROR} -> bg_red(LEVELS(rank))
      [] rank = WARN -> yellow(LEVELS(rank))
      [] rank = INFO -> green(LEVELS(rank))
      [] OTHER -> LEVELS(rank)

\* cli._format_level: LEVEL_COLORS.get(lvl), None being written 'None'
cli_format_level(lvl) == IF IsRank(lvl) THEN LEVEL_COLORS(lvl.n) ELSE Str(PyNone)

\* 'k: v, ' for each item, in the order of the dict
RECURSIVE JoinItems(_)
JoinItems(kw) ==
    IF kw = <<>> THEN <<>>
    ELSE kw[1][1] \o <<":", " ">> \o Str(kw[1][2]) \o <<",", " ">>
             \o JoinItems(Tail(kw))

\* cli._format_payload(fmt, **kw) under interpreter version v
cli_format_payload(fmt, kw, v) ==
    IF Truthy(fmt)
    THEN IF fmt.t # "str"
         THEN Raise("AttributeError", <<"object has no attribute 'format'">>)
         ELSE With(vformat(fmt.c, 1, kw, FALSE), LAMBDA output :
                  IF output.exc = "KeyError"
                  THEN Return(<<"BadLogFormat", " ">> \o fmt.c)
                  ELSE output)
    ELSE IF v = 3
         THEN Raise("AttributeError", <<"'dict' object has no attribute 'iteritems'">>)
         ELSE Return(JoinItems(kw))

\* cli._clear_colors
RECURSIVE clear_from(_, _)
clear_from(text, i) ==
    IF i > Len(COLOR_CODES) THEN text
    ELSE clear_from(RemoveAll(text, COLOR_CODES[i]), i + 1)
clear_colors(text) == clear_from(text, 1)

\* verbosity < level, of an int and any value, under interpreter version v
less_than(threshold, level, v) ==
    IF level.t \in {"int", "float", "bool"}
    THEN IF IsFinite(level) THEN Return(PyBool(threshold < level.n))
         ELSE Return(PyBool(level.c = <<"i", "n", "f">>))
    ELSE IF v = 3
    THEN Raise("TypeError", <<"'<' not supported between instances">>)
    ELSE Return(PyBool(level.t # "NoneType"))

\* cli.process: the outcome returns the lines echoed to stdout.
show(ev, fmt, nocolor, v) ==
    With(cli_format_timestamp(Get(ev, <<"timestamp">>).c, fmt), LAMBDA timestamp :
    With(cli_format_payload(Get(ev, <<"format">>),
                            Get(ev, <<"payload">>).items, v), LAMBDA payload :
        LET output == timestamp.val[1] \o <<" ">>
                        \o blue(Get(ev, <<"origin">>).c) \o <<" ">>
                        \o yellow(Get(ev, <<"stream_name">>).c)
                        \o <<":", " ", "[">>
                        \o cli_format_level(Get(ev, <<"level">>)) \o <<"]", " ">>
                        \o payload.val[1]
        IN  IF Raised(timestamp) THEN timestamp
            ELSE IF Raised(payload) THEN payload
            ELSE Return(<<IF nocolor THEN clear_colors(output) ELSE output>>)))

process(l, threshold, fmt, nocolor, v, now) ==
    With(from_json(l, now), LAMBDA e :
        IF Raised(e) THEN e
        ELSE With(less_than(threshold, Get(e.val[1].items, <<"level">>), v),
                  LAMBDA skip :
                     IF Raised(skip) THEN skip
                     ELSE IF skip.val[1] = PyBool(TRUE) THEN Return(<<>>)
                     ELSE show(e.val[1].items, fmt, nocolor, v)))

\* e.message: absent on Python 3; on Python 2 the only argument, or ''.
e_message(e, v) ==
    IF v = 3 THEN Raise("AttributeError", <<"object has no attribute 'message'">>)
    ELSE Return(IF Len(e.args) = 1 THEN e.args[1] ELSE "")

\* cli._format_exception: "Failed to interpret '<line>': <message>", red
\* unless the colors are cleared.
format_exception(l, e, nocolor, v) ==
    With(e_message(e, v), LAMBDA m :
        IF Raised(m) THEN m
        ELSE Return([text |-> "Failed to interpret", line |-> l,
                     message |-> m.val[1], red |-> ~nocolor]))

-----------------------------------------------------------------------------
(* The human scenario: the command reads its standard input line by line.  *)
(* A line is what line.strip() leaves of it.  The state keeps the last     *)
(* line read and what the command wrote for it.                            *)
FormatPayloadInputs ==
    {<<PyStr(<<"x">>), <<>>>>,
     <<PyStr(<<"{", "a", "a", "}">>), << <<<<"a", "a">>, PyInt(1)>> >> >>,
     <<PyStr(<<"{", "z", "z", "}">>), << <<<<"a", "a">>, PyInt(1)>> >> >>,
     <<PyStr(<<"{", "a", ".", "}">>), << <<<<"a", ".">>, PyInt(1)>> >> >>,
     <<PyStr(<<"{", "}">>), <<>>>>,
     <<PyStr(<<"{">>), <<>>>>,
     <<PyNone, << <<<<"a", "a">>, PyInt(1)>> >> >>,
     <<PyNone, <<>>>>}

HumanLevelInputs == {PyInt(r) : r \in LevelRanks} \cup {PyNone, PyInt(50)}

\* Valid events of every level, and of every format at two of the ranks;
\* events that fail validation.
HumanEvents ==
    {SetItem(BaseEvent, <<"level">>, lvl) : lvl \in HumanLevelInputs}
    \cup {SetItem(SetItem(SetItem(BaseEvent, <<"level">>, PyInt(r)),
                          <<"format">>, fp[1]), <<"payload">>, PyDict(fp[2])) :
            r \in {ERROR, DEBUG}, fp \in FormatPayloadInputs}
    \cup {SetItem(BaseEvent, <<"stream_name">>, PyStr(<<"%">>)),
          SetItem(BaseEvent, <<"payload">>, PyList(1)),
          SetItem(BaseEvent, <<"origin">>, PyStr(<<"-">>)),
          RemoveKey(BaseEvent, <<"stream_name">>)}

HumanLineInputs ==
    {NotJsonLine, JsonLine(JsonNull), JsonLine(JsonArray(1))}
    \cup {dumps(PyDict(kw)).val[1] : kw \in HumanEvents}

VerbosityInputs == {50, WARN, INFO, TRACE, 650}
DatefmtInputs == {<<>>, <<"%H", "h">>}

\* The traceback of an exception that leaves the command.
Traceback(l, e) ==
    [text |-> "Traceback", line |-> l, message |-> e.exc, red |-> FALSE]

InitHuman ==
    /\ IdleEvent
    /\ IdleLog
    /\ IdleRender
    /\ IdleColors
    /\ IdleSetup
    /\ py \in {2, 3}
    /\ pc = "reading"
    /\ verbosity \in VerbosityInputs
    /\ datefmt \in DatefmtInputs
    /\ no_color \in BOOLEAN
    /\ nread = 0 /\ last = <<>> /\ out = <<>> /\ err = <<>>
    /\ exit_code = -1

\* One turn of `for line in stdin`: process(line, ...) with its except
\* clause.  An exception the clause does not catch, or one raised inside
\* it, ends the command with exit code 1.  Every line of the scenario that
\* spells an event carries its timestamp, so that the clock is never read.
HumanLine ==
    /\ pc = "reading" /\ nread < MaxLines
    /\ \E l \in HumanLineInputs, now \in {MaxInstant} :
       \E o \in {process(l, verbosity, datefmt, no_color, py, now)} :
       \E msg \in {format_exception(l, o, no_color, py)} :
             /\ last' = <<l>>
             /\ IF Returned(o)
                THEN out' = o.val[1] /\ err' = <<>> /\ UNCHANGED <<pc, exit_code>>
                ELSE IF o.exc = "CosmologgerException" /\ Returned(msg)
                THEN /\ out' = <<>> /\ err' = <<msg.val[1]>>
                     /\ UNCHANGED <<pc, exit_code>>
                ELSE /\ out' = <<>>
                     /\ err' = <<Traceback(l, IF o.exc = "CosmologgerException"
                                              THEN msg ELSE o)>>
                     /\ pc' = "exited" /\ exit_code' = 1
    /\ nread' = nread + 1
    /\ UNCHANGED <<py, eventVars, logVars, renderVars, colorVars, setupVars,
                   verbosity, datefmt, no_color>>

\* The end of the input: the loop and the command finish.
HumanEof ==
    /\ pc = "reading"
    /\ pc' = "exited" /\ exit_code' = 0
    /\ UNCHANGED <<py, eventVars, logVars, renderVars, colorVars, setupVars,
                   verbosity, datefmt, no_color, nread, last,
                   out, err>>

NextHuman == HumanLine \/ HumanEof

SpecHuman == InitHuman /\ [][NextHuman]_vars

-----------------------------------------------------------------------------
(* The capture adapter: Cosmologger, CosmologgerFormatter, and the part of  *)
(* the logging package of the standard library they run on (Python 3).      *)
logging_CRITICAL == 50
logging_FATAL == logging_CRITICAL
logging_ERROR == 40
logging_WARNING == 30
logging_WARN == logging_WARNING
logging_INFO == 20
logging_DEBUG == 10

\* Cosmologger._level_mappings.get(lvl)
to_cosmolog_level(lvl) ==
    IF lvl.t \in {"int", "bool", "float"} /\ IsFinite(lvl)
    THEN CASE lvl.n \in {logging_FATAL, logging_CRITICAL} -> PyInt(FATAL)
           [] lvl.n = logging_ERROR -> PyInt(ERROR)
           [] lvl.n \in {logging_WARN, logging_WARNING} -> PyInt(WARN)
           [] lvl.n = logging_INFO -> PyInt(INFO)
           [] lvl.n = logging_DEBUG -> PyInt(DEBUG)
           [] OTHER -> PyNone
    ELSE PyNone

\* The payload key exc_text and the replacement field {exc_text}.
ExcTextKey == <<"e", "x", "c", "_", "t", "e", "x", "t">>
ExcTextField == <<"{">> \o ExcTextKey \o <<"}">>

\* sub in s
Contains(s, sub) ==
    \E i \in 1..(Len(s) - Len(sub) + 1) : SubSeq(s, i, i + Len(sub) - 1) = sub

\* msg % args, %s being the one directive of the model
RECURSIVE pct_format(_, _)
pct_format(msg, args) ==
    IF msg = <<>>
    THEN IF args = <<>> THEN Return(<<>>)
         ELSE Raise("TypeError",
                    <<"not all arguments converted during string formatting">>)
    ELSE IF Head(msg) = "%s"
    THEN IF args = <<>>
         THEN Raise("TypeError", <<"not enough arguments for format string">>)
         ELSE Prepend(Str(Head(args)), pct_format(Tail(msg), Tail(args)))
    ELSE Prepend(<<Head(msg)>>, pct_format(Tail(msg), args))

\* The attributes of a LogRecord, which `extra` may not overwrite.
RecordAttributes ==
    {<<"message">>, <<"asctime">>, <<"name">>, <<"msg">>, <<"args">>,
     <<"levelno">>, <<"exc_info">>, <<"exc_text">>, <<"created">>}

\* logging.Logger.makeRecord: the record of a call, the items of `extra`
\* becoming attributes of it.  exc_info is the truth of record.exc_info;
\* env.handling tells whether the call is made while an exception is handled.
makeRecord(name, lvl, msg, args, exc_info, extra, env) ==
    IF extra.t = "dict" /\ Keys(extra.items) \cap RecordAttributes # {}
    THEN Raise("KeyError", <<"Attempt to overwrite attribute in LogRecord">>)
    ELSE Return([name |-> name, levelno |-> lvl, msg |-> msg, args |-> args,
                 exc_info |-> Truthy(exc_info), handling |-> env.handling,
                 created |-> env.created,
                 dict |-> IF extra.t = "dict" THEN extra.items ELSE <<>>])

\* logging.LogRecord.getMessage
getMessage(record) ==
    IF record.args # <<>> THEN pct_format(Str(record.msg), record.args)
    ELSE Return(Str(record.msg))

\* record.exc_text as logging.Formatter.format leaves it: the rendering of
\* sys.exc_info(), which is (None, None, None) when nothing is handled.
exc_text(record) ==
    IF record.handling THEN <<"Traceback">> ELSE <<"NoneType", ":", " ", "None">>

\* CosmologgerFormatter._prepare_payload
prepare_payload(record) ==
    LET pld == GetOr(record.dict, <<"payload">>, PyDict(<<>>))
    IN  IF ~record.exc_info THEN Return(pld)
        ELSE IF pld.t # "dict"
        THEN Raise("TypeError", <<"object does not support item assignment">>)
        ELSE Return(PyDict(SetItem(pld.items, ExcTextKey,
                                   PyStr(exc_text(record)))))

\* CosmologgerFormatter._prepare_timestamp
prepare_timestamp(record) == PyFloat(record.created)

\* CosmologgerFormatter._prepare_format, message being record.getMessage()
prepare_format(record, message) ==
    IF record.msg = PyNone THEN PyNone
    ELSE IF record.exc_info /\ ~Contains(Str(record.msg), ExcTextField)
    THEN PyStr(message \o <<"\n">> \o ExcTextField)
    ELSE PyStr(message)

\* CosmologgerFormatter._prepare_log_event, for the formatter that
\* setup_logging configures (origin: the default one)
prepare_log_event(record, message, pld) ==
    from_dict(PyDict(
        << <<<<"stream_name">>, PyStr(record.name)>>,
           <<<<"origin">>, get_default_origin>>,
           <<<<"version">>, PyInt(DEFAULT_SCHEMA_VERSION)>>,
           <<<<"timestamp">>, prepare_timestamp(record)>>,
           <<<<"format">>, prepare_format(record, message)>>,
           <<<<"level">>, to_cosmolog_level(record.levelno)>>,
           <<<<"payload">>, pld>> >>), record.created)

\* CosmologgerFormatter.event_format
event_format(event) == json(event)

\* CosmologgerFormatter.format
formatter_format(record) ==
    With(getMessage(record), LAMBDA m :
        IF Raised(m) THEN m
        ELSE With(prepare_payload(record), LAMBDA pld :
        IF Raised(pld) THEN pld
        ELSE With(prepare_log_event(record, m.val[1], pld.val[1]), LAMBDA e :
        IF Raised(e) THEN e ELSE event_format(e.val[1]))))

\* The items of `extra` after CosmologgerFormatter.format: the record holds
\* the very dict that is extra['payload'], and _prepare_payload, which runs
\* once logging.Formatter.format has merged the message, writes exc_text
\* into it.
dict_after(record) ==
    With(prepare_payload(record), LAMBDA pld :
        IF /\ HasKey(record.dict, <<"payload">>)
           /\ Returned(getMessage(record))
           /\ Returned(pld)
        THEN SetItem(record.dict, <<"payload">>, pld.val[1])
        ELSE record.dict)

\* What a call does: what it raises into its caller, the lines it adds to
\* the stream of the handler, the reports it adds to sys.stderr, and the
\* caller's `extra` mapping after it.
Quiet == [caller |-> NoOutcome, stream |-> <<>>, errchan |-> <<>>,
          extra |-> <<>>]

\* logging.StreamHandler.emit: the formatted record is written to the
\* stream; any exception goes to Handler.handleError, which reports it.
emit(record) ==
    With(formatter_format(record), LAMBDA msg :
        IF Raised(msg)
        THEN [Quiet EXCEPT !.errchan = <<[exc |-> msg.exc, args |-> msg.args]>>,
                           !.extra = <<PyDict(dict_after(record))>>]
        ELSE [Quiet EXCEPT !.stream = <<msg.val[1]>>,
                           !.extra = <<PyDict(dict_after(record))>>])

\* logging.Logger.log of the logger `name`, which hands its records to the
\* handler of the root logger; env.threshold is the level of the root.
Logger_log(name, lvl, msg, args, exc_info, extra, env) ==
    IF lvl.t \notin {"int", "bool"}
    THEN [Quiet EXCEPT !.caller = Raise("TypeError", <<"level must be an integer">>)]
    ELSE IF lvl.n < env.threshold THEN Quiet
    ELSE With(makeRecord(name, lvl, msg, args, exc_info, extra, env), LAMBDA r :
             IF Raised(r) THEN [Quiet EXCEPT !.caller = r] ELSE emit(r.val[1]))

\* The stream name of the Cosmologger of the scenario.
LoggerName == <<"a", "b">>

\* Cosmologger.log without extras.update(dict(payload=payload)).
log_without_update(lvl, args, kw, env) ==
    LET extras == GetOr(kw, <<"extra">>, PyDict(<<>>))
    IN  Logger_log(LoggerName, lvl,
                   IF args = <<>> THEN PyNone ELSE Head(args),
                   IF args = <<>> THEN <<>> ELSE Tail(args),
                   GetOr(kw, <<"exc_info">>, PyInt(0)), extras, env)

\* Cosmologger.log that adds the payload to the 'payload' entry `extra`
\* has, instead of replacing the entry.
log_keeping_payload(lvl, args, kw, env) ==
    LET own == RemoveKey(RemoveKey(kw, <<"extra">>), <<"exc_info">>)
        extras == GetOr(kw, <<"extra">>, PyDict(<<>>))
        kept == IF extras.t = "dict"
                THEN GetOr(extras.items, <<"payload">>, PyDict(<<>>)).items
                ELSE <<>>
        NotOwn(item) == ~HasKey(own, item[1])
        updated == PyDict(SetItem(extras.items, <<"payload">>,
                                  PyDict(own \o SelectSeq(kept, NotOwn))))
        exc_info == GetOr(kw, <<"exc_info">>, PyInt(0))
    IN  IF extras.t # "dict"
        THEN [Quiet EXCEPT
                !.caller = Raise("AttributeError",
                                 <<"object has no attribute 'update'">>),
                !.extra = <<extras>>]
        ELSE With(Logger_log(LoggerName, lvl,
                             IF args = <<>> THEN PyNone ELSE Head(args),
                             IF args = <<>> THEN <<>> ELSE Tail(args),
                             exc_info, updated, env), LAMBDA r :
                 [r EXCEPT !.extra = IF ~HasKey(kw, <<"extra">>) THEN <<>>
                                     ELSE IF r.extra = <<>> THEN <<updated>>
                                     ELSE r.extra])

\* Cosmologger.log
log(lvl, args, kw, env) ==
    LET payload == PyDict(RemoveKey(RemoveKey(kw, <<"extra">>), <<"exc_info">>))
        extras == GetOr(kw, <<"extra">>, PyDict(<<>>))
        updated == PyDict(SetItem(extras.items, <<"payload">>, payload))
        exc_info == GetOr(kw, <<"exc_info">>, PyInt(0))
    IN  IF extras.t # "dict"
        THEN [Quiet EXCEPT
                !.caller = Raise("AttributeError",
                                 <<"object has no attribute 'update'">>),
                !.extra = <<extras>>]
        ELSE With(Logger_log(LoggerName, lvl,
                             IF args = <<>> THEN PyNone ELSE Head(args),
                             IF args = <<>> THEN <<>> ELSE Tail(args),
                             exc_info, updated, env), LAMBDA r :
                 [r EXCEPT !.extra = IF ~HasKey(kw, <<"extra">>) THEN <<>>
                                     ELSE IF r.extra = <<>> THEN <<updated>>
                                     ELSE r.extra])

\* The methods of Cosmologger.
fatal(args, kw, env) == log(PyInt(logging_FATAL), args, kw, env)
critical(args, kw, env) == fatal(args, kw, env)
error(args, kw, env) == log(PyInt(logging_ERROR), args, kw, env)
exception(args, kw, env) ==
    error(args, IF HasKey(kw, <<"exc_info">>) THEN kw
                ELSE SetItem(kw, <<"exc_info">>, PyInt(1)), env)
warn(args, kw, env) == log(PyInt(logging_WARN), args, kw, env)
warning(args, kw, env) == warn(args, kw, env)
info(args, kw, env) == log(PyInt(logging_INFO), args, kw, env)
debug(args, kw, env) == log(PyInt(logging_DEBUG), args, kw, env)

-----------------------------------------------------------------------------
(* The logger scenario: after setup_logging(level) and Cosmologger('ab'),  *)
(* logging calls are made one after the other.  The state keeps the last   *)
(* call and what it did.                                                   *)
Aa == <<"a", "a">>
Call(args, kw, handling) == [args |-> args, kw |-> kw, handling |-> handling]

\* The calls made on the Cosmologger: positional arguments, keyword
\* arguments, and whether an exception is being handled.
CallInputs ==
    {Call(<<>>, <<>>, FALSE),
     Call(<<PyStr(<<"x">>)>>, <<>>, FALSE),
     Call(<<PyStr(<<"{", "a", "a", "}">>)>>, << <<Aa, PyInt(1)>> >>, FALSE),
     Call(<<PyStr(<<"x">>)>>, << <<Aa, PyInt(1)>> >>, TRUE),
     Call(<<PyStr(<<"x">>)>>, << <<Aa, PyDict(<<>>)>> >>, FALSE),
     Call(<<PyStr(<<"x">>)>>, << <<<<"%">>, PyInt(1)>> >>, FALSE),
     Call(<<PyStr(<<"x">>)>>,
          << <<Aa, PyInt(1)>>,
             <<<<"extra">>, PyDict(<< <<<<"user">>, PyInt(1)>> >>)>> >>, FALSE),
     Call(<<PyStr(<<"x">>)>>,
          << <<Aa, PyInt(1)>>,
             <<<<"extra">>,
               PyDict(<< <<<<"payload">>,
                           PyDict(<< <<<<"z">>, PyInt(1)>> >>)>> >>)>> >>,
          FALSE),
     Call(<<PyStr(<<"x">>)>>, << <<<<"extra">>, PyNone>> >>, FALSE),
     Call(<<PyStr(<<"x">>)>>,
          << <<<<"extra">>, PyDict(<< <<<<"msg">>, PyInt(1)>> >>)>> >>, FALSE),
     Call(<<PyStr(<<"x">>)>>, << <<<<"exc_info">>, PyInt(1)>> >>, TRUE),
     Call(<<PyStr(<<"x">>)>>, << <<<<"exc_info">>, PyInt(1)>> >>, FALSE),
     Call(<<PyStr(<<"x">>)>>,
          << <<<<"exc_info">>, PyBool(FALSE)>>, <<Aa, PyInt(1)>> >>, TRUE),
     Call(<<PyStr(ExcTextField)>>, << <<<<"exc_info">>, PyInt(1)>> >>, TRUE),
     Call(<<PyStr(<<"%s">>), PyStr(<<"v">>)>>, <<>>, FALSE),
     Call(<<PyStr(<<"%s">>), PyStr(ExcTextField)>>,
          << <<<<"exc_info">>, PyInt(1)>> >>, TRUE),
     Call(<<PyStr(<<"x">>), PyStr(<<"v">>)>>, <<>>, FALSE),
     Call(<<PyStr(<<"x">>)>>,
          << <<Aa, PyInt(1)>>, <<<<"exc_info">>, PyInt(1)>>,
             <<<<"extra">>, PyDict(<< <<<<"user">>, PyInt(1)>> >>)>> >>, TRUE)}

\* The calls that give the `extra` mapping of the call before them again.
Bb == <<"b", "b">>
ReuseInputs ==
    {Call(<<PyStr(<<"x">>)>>, <<>>, FALSE),
     Call(<<PyStr(<<"x">>)>>, << <<Bb, PyInt(2)>> >>, FALSE),
     Call(<<PyStr(<<"x">>)>>,
          << <<Bb, PyInt(2)>>, <<<<"exc_info">>, PyInt(1)>> >>, TRUE)}

\* The severities given to Cosmologger.log and to the host logger.
SeverityInputs ==
    {PyInt(logging_INFO), PyInt(logging_ERROR), PyInt(logging_INFO + 5),
     PyStr(<<"INFO">>)}
LogCallInputs ==
    {c \in CallInputs : c.kw = <<>> \/ Keys(c.kw) = {<<"exc_info">>}}

\* The calls made on the host logger: its name and the `extra` given.
HostNames == {LoggerName, <<"%">>}
HostExtras ==
    {PyNone,
     PyDict(<< <<<<"payload">>, PyDict(<< <<Aa, PyInt(1)>> >>)>> >>),
     PyDict(<< <<<<"payload">>, PyDict(<< <<Aa, PyDict(<<>>)>> >>)>> >>),
     PyDict(<< <<<<"payload">>, PyList(2)>> >>),
     PyDict(<< <<<<"user">>, PyInt(1)>> >>)}

\* setup_logging(level): the root logger gets the level and a StreamHandler
\* with a CosmologgerFormatter.
RootLevels == {logging_INFO, logging_DEBUG}

\* time.time() at the calls, one hour apart.
Env(handling) ==
    [handling |-> handling, created |-> MaxInstant - MaxCalls + ncalls,
     threshold |-> root_level]

InitLog ==
    /\ IdleEvent
    /\ IdleHuman
    /\ IdleRender
    /\ IdleColors
    /\ IdleSetup
    /\ py = 3
    /\ pc = "logging"
    /\ root_level \in RootLevels
    /\ ncalls = 0 /\ call = <<>> /\ stream = <<>> /\ errchan = <<>>
    /\ caller = NoOutcome /\ extra_after = <<>>

\* The call `method` of severity lvl with the arguments c on the logger
\* `name` has done what done tells.
Called(method, name, lvl, c, done) ==
    /\ pc = "logging"
    /\ \E r \in {done} :
         /\ call' = <<[method |-> method, name |-> name, lvl |-> lvl,
                       args |-> c.args, kw |-> c.kw, handling |-> c.handling]>>
         /\ stream' = r.stream
         /\ errchan' = r.errchan
         /\ caller' = r.caller
         /\ extra_after' = r.extra
    /\ ncalls' = ncalls + 1
    /\ UNCHANGED <<py, pc, eventVars, humanVars, root_level, renderVars,
                   colorVars, setupVars>>

Fatal ==
    /\ ncalls < MaxCalls
    /\ \E c \in CallInputs :
        Called("fatal", LoggerName, PyInt(logging_FATAL), c,
               fatal(c.args, c.kw, Env(c.handling)))
Critical ==
    /\ ncalls < MaxCalls
    /\ \E c \in CallInputs :
        Called("critical", LoggerName, PyInt(logging_CRITICAL), c,
               critical(c.args, c.kw, Env(c.handling)))
Error ==
    /\ ncalls < MaxCalls
    /\ \E c \in CallInputs :
        Called("error", LoggerName, PyInt(logging_ERROR), c,
               error(c.args, c.kw, Env(c.handling)))
Exception ==
    /\ ncalls < MaxCalls
    /\ \E c \in CallInputs :
        Called("exception", LoggerName, PyInt(logging_ERROR), c,
               exception(c.args, c.kw, Env(c.handling)))
Warn ==
    /\ ncalls < MaxCalls
    /\ \E c \in CallInputs :
        Called("warn", LoggerName, PyInt(logging_WARN), c,
               warn(c.args, c.kw, Env(c.handling)))
Warning ==
    /\ ncalls < MaxCalls
    /\ \E c \in CallInputs :
        Called("warning", LoggerName, PyInt(logging_WARNING), c,
               warning(c.args, c.kw, Env(c.handling)))
Info ==
    /\ ncalls < MaxCalls
    /\ \E c \in CallInputs :
        Called("info", LoggerName, PyInt(logging_INFO), c,
               info(c.args, c.kw, Env(c.handling)))
Debug ==
    /\ ncalls < MaxCalls
    /\ \E c \in CallInputs :
        Called("debug", LoggerName, PyInt(logging_DEBUG), c,
               debug(c.args, c.kw, Env(c.handling)))
Log ==
    /\ ncalls < MaxCalls
    /\ \E lvl \in SeverityInputs, c \in LogCallInputs :
        Called("log", LoggerName, lvl, c, log(lvl, c.args, c.kw, Env(c.handling)))

\* logging.getLogger(name).log(lvl, 'x', extra=extra): a call on the host
\* logger, which leaves the `extra` mapping as it is.
HostLog ==
    /\ ncalls < MaxCalls
    /\ \E name \in HostNames, lvl \in SeverityInputs, extra \in HostExtras :
        Called("host", name, lvl,
               Call(<<PyStr(<<"x">>)>>, << <<<<"extra">>, extra>> >>, FALSE),
               [Logger_log(name, lvl, PyStr(<<"x">>), <<>>, PyInt(0), extra,
                           Env(FALSE))
                  EXCEPT !.extra = <<extra>>])

\* log.info(..., extra=X), X being the mapping given to the call before
Reuse ==
    /\ ncalls < MaxCalls
    /\ extra_after # <<>>
    /\ call[1].method # "host"
    /\ \E c \in ReuseInputs :
       \E kw \in {Append(c.kw, <<<<"extra">>, extra_after[1]>>)} :
        Called("info", LoggerName, PyInt(logging_INFO), Call(c.args, kw, c.handling),
               info(c.args, kw, Env(c.handling)))

NextLog ==
    \/ Fatal \/ Critical \/ Error \/ Exception \/ Warn \/ Warning \/ Info
    \/ Debug \/ Log \/ HostLog \/ Reuse

SpecLog == InitLog /\ [][NextLog]_vars

-----------------------------------------------------------------------------
(* cosmologger.py: CosmologgerHumanFormatter, with the default format. *)
\* _default_datefmt[color]
human_default_datefmt(c) ==
    IF c THEN CRED \o <<"%d", " ">> \o CGREEN \o <<"%H">> \o CRESET
    ELSE <<"%d", " ", "%H">>

\* CosmologgerHumanFormatter._format_timestamp; fmt = <<>> is datefmt=None
human_format_timestamp(timestamp, c, fmt) ==
    With(iso8601_to_datetime(timestamp), LAMBDA dt :
        IF Raised(dt) THEN dt
        ELSE Return(strftime(dt.val[1], IF fmt = <<>> THEN human_default_datefmt(c)
                                        ELSE fmt)))

\* LEVELS[level], as '{level}' writes it: the registry maps the ranks to
\* their names and the names to their ranks.
LEVELS_getitem(level) ==
    IF level.t \in {"list", "dict"} THEN Raise("TypeError", <<"unhashable type">>)
    ELSE IF IsRank(level) THEN Return(LEVELS(level.n))
    ELSE IF level.t = "str" /\ \E r \in LevelRanks : LEVELS(r) = level.c
    THEN Return(NumStr(CHOOSE r \in LevelRanks : LEVELS(r) = level.c))
    ELSE Raise("KeyError", <<"level">>)

\* LEVEL_COLORS.get(level), as '{level}' writes it
LEVEL_COLORS_get(level) ==
    IF level.t \in {"list", "dict"} THEN Raise("TypeError", <<"unhashable type">>)
    ELSE IF IsRank(level) THEN Return(LEVEL_COLORS(level.n))
    ELSE Return(Str(PyNone))

\* ', '.join('{}: {}'.format(k, v) for k, v in payload.items()), from the
\* i-th item on
RECURSIVE JoinedItems(_, _)
JoinedItems(kw, i) ==
    IF i > Len(kw) THEN <<>>
    ELSE (IF i > 1 THEN <<",", " ">> ELSE <<>>)
            \o kw[i][1] \o <<":", " ">> \o Str(kw[i][2]) \o JoinedItems(kw, i + 1)

\* 'BadLogFormat("{format}") {payload}'.format(**e)
BadLogFormat(e) ==
    <<"BadLogFormat", "(", "\"">> \o Str(Get(e, <<"format">>)) \o <<"\"", ")", " ">>
        \o Str(Get(e, <<"payload">>))

\* The payload part of CosmologgerHumanFormatter.event_format
human_format_payload(e) ==
    LET fmt == Get(e, <<"format">>)
        payload == Get(e, <<"payload">>)
    IN  IF Truthy(fmt)
        THEN IF fmt.t # "str" THEN Raise("TypeError", <<"expected str">>)
             ELSE With(vformat(fmt.c, 1, payload.items, TRUE), LAMBDA output :
                      IF output.exc = "KeyError" THEN Return(BadLogFormat(e))
                      ELSE output)
        ELSE Return(JoinedItems(payload.items, 1))

\* CosmologgerHumanFormatter(color=c, datefmt=fmt).event_format(e)
human_event_format(e, c, fmt) ==
    With(human_format_timestamp(Get(e, <<"timestamp">>).c, c, fmt), LAMBDA timestamp :
    With(IF c THEN LEVEL_COLORS_get(Get(e, <<"level">>))
         ELSE LEVELS_getitem(Get(e, <<"level">>)), LAMBDA level :
    With(human_format_payload(e), LAMBDA payload :
        LET origin == Get(e, <<"origin">>).c
            stream_name == Get(e, <<"stream_name">>).c
        IN  IF Raised(timestamp) THEN timestamp
            ELSE IF Raised(level) THEN level
            ELSE IF Raised(payload) THEN payload
            ELSE Return(timestamp.val[1] \o <<" ">>
                          \o (IF c THEN blue(origin) ELSE origin) \o <<" ">>
                          \o (IF c THEN yellow(stream_name) ELSE stream_name)
                          \o <<":", " ", "[">> \o level.val[1] \o <<"]", " ">>
                          \o payload.val[1]))))

-----------------------------------------------------------------------------
(* The rendering scenario: an event is constructed, rendered by a          *)
(* CosmologgerHumanFormatter, and its wire line is given to the line       *)
(* processor of the command.                                               *)
Ab == <<"a", ".", "b">>
A_b == <<"a", "-", "b">>

\* Formats with their payloads: keys present, absent, dotted and dashed;
\* braces that are not placeholders; no format.
RenderFormatInputs ==
    FormatPayloadInputs
    \cup {<<PyStr(<<"{">> \o Ab \o <<"}">>), << <<Ab, PyInt(1)>> >> >>,
          <<PyStr(<<"{">> \o A_b \o <<"}">>), << <<A_b, PyInt(1)>> >> >>,
          <<PyStr(<<"}", "{", "z", "z", "}">>), <<>>>>,
          <<PyStr(<<"{", "\"", "j", "\"", ":", " ", "\"", "d", "\"", "}">>), <<>>>>,
          <<PyStr(<<"{", "'", "j", "'", ":", " ", "1", "}">>), <<>>>>,
          <<PyStr(<<"{", "{", "j", "}", "}">>), <<>>>>,
          <<PyInt(1), <<>>>>,
          <<PyNone, << <<Aa, PyInt(1)>>, <<Ab, PyStr(CRED)>> >> >>}

RenderLevelInputs == HumanLevelInputs \cup {PyStr(LEVELS(INFO))}

RenderEvents ==
    {SetItem(BaseEvent, <<"level">>, lvl) : lvl \in RenderLevelInputs}
    \cup {SetItem(SetItem(SetItem(BaseEvent, <<"level">>, lvl),
                          <<"format">>, fp[1]), <<"payload">>, PyDict(fp[2])) :
            lvl \in {PyInt(ERROR), PyNone}, fp \in RenderFormatInputs}

InitRender ==
    /\ IdleLog
    /\ IdleColors
    /\ IdleSetup
    /\ py \in {2, 3}
    /\ pc = "start"
    /\ how = "init" /\ kwargs \in RenderEvents /\ line = NotJsonLine
    /\ result = NoOutcome /\ wire = <<>> /\ reparsed = NoOutcome
    /\ verbosity \in {WARN, TRACE}
    /\ datefmt \in DatefmtInputs
    /\ no_color \in BOOLEAN
    /\ nread = 0 /\ last = <<>> /\ out = <<>> /\ err = <<>> /\ exit_code = -1
    /\ colored \in BOOLEAN
    /\ shown = NoOutcome /\ echoed = NoOutcome

\* CosmologgerHumanFormatter(color=colored, datefmt=datefmt).event_format(e)
EventFormat ==
    /\ pc = "built" /\ Returned(result)
    /\ shown' = human_event_format(result.val[1].items, colored, datefmt)
    /\ pc' = "shown"
    /\ UNCHANGED <<py, eventVars, humanVars, logVars, colored, echoed, colorVars,
                   setupVars>>

\* process(e.json, verbosity, datefmt, no_color): the outcome returns the
\* lines echoed to stdout.
Process ==
    /\ pc = "shown"
    /\ \E j \in {json(result.val[1])} :
          /\ Returned(j)
          /\ wire' = <<j>>
          /\ echoed' = process(j.val[1], verbosity, datefmt, no_color, py,
                               MaxInstant)
    /\ pc' = "echoed"
    /\ UNCHANGED <<py, how, kwargs, line, result, reparsed, humanVars, logVars,
                   colored, shown, colorVars, setupVars>>

NextRender == Construct \/ EventFormat \/ Process

SpecRender == InitRender /\ [][NextRender]_vars

-----------------------------------------------------------------------------
(* The colors scenario: _clear_colors is applied to a string, and again to *)
(* its result.  The strings are made of whole codes, of the two halves of  *)
(* the reset code, and of plain text.                                      *)
ColorPieces == {CRESET, CRED, BRED, <<"ESC", "[">>, <<"0", "m">>, <<"x">>}

RECURSIVE Pieces(_)
Pieces(n) ==
    IF n = 0 THEN {<<>>}
    ELSE Pieces(n - 1) \cup {s \o p : s \in Pieces(n - 1), p \in ColorPieces}

ColorInputs == Pieces(MaxPieces)

InitColors ==
    /\ IdleEvent
    /\ IdleHuman
    /\ IdleLog
    /\ IdleRender
    /\ IdleSetup
    /\ py = 3
    /\ pc = "start"
    /\ subject \in ColorInputs
    /\ once = <<>> /\ twice = <<>>

\* line = _clear_colors(line)
ClearOnce ==
    /\ pc = "start"
    /\ once' = <<clear_colors(subject)>>
    /\ pc' = "once"
    /\ UNCHANGED <<py, eventVars, humanVars, logVars, renderVars, subject, twice,
                   setupVars>>

\* line = _clear_colors(line), of the result
ClearTwice ==
    /\ pc = "once"
    /\ twice' = <<clear_colors(once[1])>>
    /\ pc' = "twice"
    /\ UNCHANGED <<py, eventVars, humanVars, logVars, renderVars, subject, once,
                   setupVars>>

NextColors == ClearOnce \/ ClearTwice

SpecColors == InitColors /\ [][NextColors]_vars

-----------------------------------------------------------------------------
(* The setup scenario: setup_logging and Cosmologger are called, any number *)
(* of times and in any order.  The state keeps the configuration that      *)
(* logging.config.dictConfig applied last, the names registered with the   *)
(* manager of the host loggers, and the last call with its outcome.        *)

\* logging.Logger.manager.getLogger(name): the logger is registered under
\* its name, once.
getLogger(name, registry) == registry \cup {name}

\* Cosmologger.__init__ that looks the host logger up before it validates.
Cosmologger_lookup_first(stream_name, registry) ==
    With(validate_stream_name(stream_name), LAMBDA v :
        [outcome |-> IF Raised(v) THEN v ELSE Return(stream_name),
         loggers |-> IF stream_name.t = "str"
                     THEN getLogger(stream_name.c, registry) ELSE registry])

\* Cosmologger(stream_name), the manager having registered `registry`: the
\* outcome returns the stream name of the new Cosmologger.
Cosmologger(stream_name, registry) ==
    With(validate_stream_name(stream_name), LAMBDA v :
        IF Raised(v) THEN [outcome |-> v, loggers |-> registry]
        ELSE [outcome |-> Return(stream_name),
              loggers |-> getLogger(stream_name.c, registry)])

\* DEFAULT_CONFIG of setup_logging: the origin of the formatter and the
\* level of the root logger are what the call chooses in it.
DEFAULT_CONFIG(level, origin) ==
    PyDict(<< <<<<"origin">>, origin>>, <<<<"level">>, level>> >>)

\* setup_logging(level, origin, custom_config), the configuration being cfg
setup_logging(level, origin0, custom_config, cfg) ==
    With(IF Truthy(origin0) THEN origin0 ELSE get_default_origin, LAMBDA origin :
    With(validate_origin(origin), LAMBDA v :
        IF Raised(v) THEN [outcome |-> v, config |-> cfg]
        ELSE [outcome |-> Return(PyNone),
              config |-> <<IF Truthy(custom_config) THEN custom_config
                           ELSE DEFAULT_CONFIG(level, origin)>>]))

CustomConfig == PyDict(<< <<<<"version">>, PyInt(1)>> >>)
CustomConfigInputs == {PyNone, PyDict(<<>>), CustomConfig}
SetupOriginInputs ==
    {PyNone, PyInt(5), PyStr(<<>>), PyStr(<<"a">>), PyStr(<<"a", ".", "b">>),
     PyStr(<<"-">>), PyStr(<<"a", ".">>), PyStr(<<"a", " ", "b">>),
     PyStr(<<"a", "\n">>), PyStr(Dotted(MaxOriginLen + 2)),
     PyStr(Repeat("a", LabelMax + 1))}

SetupNameInputs ==
    {PyStr(<<"a", "a">>), PyStr(<<"a", ".">>), PyStr(<<"a">>), PyStr(<<>>),
     PyStr(<<"a", "%">>), PyStr(<<"%", "a">>), PyStr(<<"a", "a", "\n">>),
     PyNone, PyInt(5)}

InitSetup ==
    /\ IdleEvent
    /\ IdleHuman
    /\ IdleLog
    /\ IdleRender
    /\ IdleColors
    /\ py = 3
    /\ pc = "setup"
    /\ config = <<>> /\ loggers = {} /\ made = NoCall

\* setup_logging(level=level, origin=origin, custom_config=custom_config)
SetupLogging ==
    /\ pc = "setup"
    /\ \E level \in RootLevels, origin \in SetupOriginInputs,
          custom_config \in CustomConfigInputs :
       \E r \in {setup_logging(PyInt(level), origin, custom_config, config)} :
          /\ made' = [op |-> "setup_logging",
                      args |-> <<PyInt(level), origin, custom_config>>,
                      outcome |-> r.outcome]
          /\ config' = r.config
    /\ UNCHANGED <<py, pc, eventVars, humanVars, logVars, renderVars, colorVars,
                   loggers>>

\* Cosmologger(stream_name)
NewCosmologger ==
    /\ pc = "setup"
    /\ \E stream_name \in SetupNameInputs :
       \E r \in {Cosmologger(stream_name, loggers)} :
          /\ made' = [op |-> "Cosmologger", args |-> <<stream_name>>,
                      outcome |-> r.outcome]
          /\ loggers' = r.loggers
    /\ UNCHANGED <<py, pc, eventVars, humanVars, logVars, renderVars, colorVars,
                   config>>

NextSetup == SetupLogging \/ NewCosmologger

SpecSetup == InitSetup /\ [][NextSetup]_vars

-----------------------------------------------------------------------------
(* Properties of the event scenario. *)
Built == pc # "start" /\ Returned(result)
Event == result.val[1].items
\* The dict the construction was given (the line decoded, for from_json).
Given == IF how = "from_json"
         THEN (IF line.json /\ line.doc.j = "object"
               THEN decode(line.doc).items ELSE <<>>)
         ELSE kwargs

\* s fully matches [A-Za-z0-9][A-Za-z0-9._-]+
FullyMatchesName(s) ==
    /\ Len(s) >= 2
    /\ s[1] \in AlnumChars
    /\ \A i \in 2..Len(s) : s[i] \in NameChars

\* A label of an origin: 1-63 letters, digits, '_' or '-', no '-' at an end.
IsLabel(l) ==
    /\ Len(l) >= 1 /\ Len(l) <= 63
    /\ \A i \in 1..Len(l) : l[i] \in LabelChars
    /\ l[1] # "-" /\ l[Len(l)] # "-"

IsOrigin(o) ==
    /\ o.t = "str"
    /\ Len(o.c) <= 255
    /\ \A i \in 1..Len(Split(o.c, ".")) : IsLabel(Split(o.c, ".")[i])

IsScalar(v) == v.t \in {"bool", "int", "float", "str", "NoneType"}

IsPayload(p) ==
    /\ p.t = "dict"
    /\ \A i \in 1..Len(p.items) :
        FullyMatchesName(p.items[i][1]) /\ IsScalar(p.items[i][2])

\* C1: every event that was constructed, by the constructor, from_dict or
\* from_json, has a stream_name that fully matches the pattern, an origin
\* of at most 255 characters made of labels, payload keys that fully match
\* the pattern and scalar payload values.
C1_EventIsValid ==
    Built =>
        /\ Get(Event, <<"stream_name">>).t = "str"
        /\ FullyMatchesName(Get(Event, <<"stream_name">>).c)
        /\ IsOrigin(Get(Event, <<"origin">>))
        /\ IsPayload(Get(Event, <<"payload">>))

HasNaN(p) == \E i \in 1..Len(p.items) :
                 p.items[i][2].t = "float" /\ p.items[i][2].c = <<"n", "a", "n">>

\* C2 as stated: parsing the JSON of an event gives an event equal to it.
C2_RoundTrip ==
    pc = "reparsed" =>
        Returned(reparsed) /\ PyEq(reparsed.val[1], result.val[1])

\* C2, amended: parsing the JSON of an event none of whose payload values
\* is a NaN gives an event equal to it, field by field as mappings.
C2_RoundTripWithoutNaN ==
    (pc = "reparsed" /\ ~HasNaN(Get(Event, <<"payload">>))) =>
        Returned(reparsed) /\ PyEq(reparsed.val[1], result.val[1])

\* An event with a null format and a null payload value went round.
C2_Witness ==
    /\ pc = "reparsed"
    /\ Get(Event, <<"payload">>).items # <<>>
    /\ \E i \in 1..Len(Get(Event, <<"payload">>).items) :
           Get(Event, <<"payload">>).items[i][2] = PyNone
    /\ Returned(reparsed)
    /\ Get(reparsed.val[1].items, <<"payload">>) = Get(Event, <<"payload">>)

\* C3: from_json returns an event or raises CosmologgerException.
C3_FromJsonTypedFailure ==
    (how = "from_json" /\ pc # "start") =>
        Returned(result) \/ result.exc = "CosmologgerException"

\* The validation faults of a dict of fields, as the claim lists them.
HasValidationFault(kw) ==
    LET origin == GetOr(kw, <<"origin">>, PyNone)
        stream_name == GetOr(kw, <<"stream_name">>, PyNone)
        payload == GetOr(kw, <<"payload">>, PyDict(<<>>))
    IN  \/ origin.t = "str" /\ origin.c # <<>> /\ ~IsOrigin(origin)
        \/ stream_name.t = "str" /\ ~FullyMatchesName(stream_name.c)
        \/ payload.t # "dict"
        \/ payload.t = "dict" /\ ~IsPayload(payload)

\* C7: a validation failure is a CosmologgerException whose first element
\* is 'ValidationError' and whose second element is the message.
C7_ValidationErrorTag ==
    (pc # "start" /\ result.exc = "CosmologgerException"
        /\ HasValidationFault(Given)) =>
        Len(result.args) = 2 /\ result.args[1] = "ValidationError"

\* The instant a timestamp input denotes, for the shapes of C8: a datetime
\* (naive: in UTC), the epoch as a number, the epoch as a numeric string.
DenotesInstant(t) ==
    \/ t.t = "datetime"
    \/ t.t \in {"int", "float"} /\ IsFinite(t)
    \/ t.t = "str" /\ t.c # <<>> /\ \A i \in 1..Len(t.c) : IsDigit(t.c[i])
InstantOf(t) ==
    CASE t.t = "datetime" -> IF t.c = <<>> THEN t.n ELSE t.n - UtcOffset(t.c)
      [] t.t = "str" -> DigitsValue(t.c)
      [] OTHER -> t.n

\* C8: the timestamp stored for a datetime, an epoch number or a numeric
\* string is the text of that instant in UTC.
C8_TimestampIsUtcInstant ==
    (pc # "start" /\ how = "init" /\ HasKey(kwargs, <<"timestamp">>)
        /\ DenotesInstant(Get(kwargs, <<"timestamp">>))) =>
        /\ Returned(result)
        /\ Get(Event, <<"timestamp">>)
             = PyStr(IsoText(InstantOf(Get(kwargs, <<"timestamp">>)), <<"Z">>))

\* A timestamp input of none of the accepted shapes.
NoAcceptedShape(t) ==
    /\ t.t \notin {"datetime", "int", "float", "bool"}
    /\ t.t = "str" =>
        /\ t.c # <<"n", "o", "w">>
        /\ Raised(float(t.c))
        /\ Raised(dateparse(t.c, FALSE))

\* C9: a timestamp of none of the accepted shapes makes the construction
\* raise CosmologgerException.
C9_TimestampTypedFailure ==
    (pc # "start" /\ how = "init"
        /\ NoAcceptedShape(GetOr(kwargs, <<"timestamp">>, PyNone))) =>
        result.exc = "CosmologgerException"

-----------------------------------------------------------------------------
(* Properties of the human scenario. *)
\* A line that from_json does not turn into an event.
Uninterpretable(l) == Raised(from_json(l, MaxInstant))
LineLevel(l) == Get(from_json(l, MaxInstant).val[1].items, <<"level">>)

\* C4: a line that cannot be interpreted writes exactly one diagnostic
\* 'Failed to interpret ...' to stderr and nothing to stdout, and does not
\* end the command: the exit code, once there is one, is 0.
C4_BadLineIsReported ==
    (nread > 0 /\ Uninterpretable(last[1])) =>
        /\ out = <<>>
        /\ Len(err) = 1 /\ err[1].text = "Failed to interpret"
        /\ exit_code \in {-1, 0}

\* C6: a line that spells a valid event of one of the six ranks writes
\* nothing to stdout and no error when the threshold is lower than its
\* level, and exactly one line to stdout otherwise.
C6_VerbosityFilter ==
    (nread > 0 /\ ~Uninterpretable(last[1]) /\ IsRank(LineLevel(last[1]))) =>
        IF verbosity < LineLevel(last[1]).n
        THEN out = <<>> /\ err = <<>> /\ exit_code \in {-1, 0}
        ELSE Len(out) = 1 /\ err = <<>> /\ exit_code \in {-1, 0}

-----------------------------------------------------------------------------
(* Properties of the logger scenario. *)
\* The payload the formatter gets from a call: the keyword arguments of a
\* call on the Cosmologger, the `payload` of the `extra` of a host call.
CallPayload(c) ==
    IF c.method = "host"
    THEN (IF Get(c.kw, <<"extra">>).t = "dict"
          THEN GetOr(Get(c.kw, <<"extra">>).items, <<"payload">>, PyDict(<<>>))
          ELSE PyDict(<<>>))
    ELSE PyDict(RemoveKey(RemoveKey(c.kw, <<"extra">>), <<"exc_info">>))

\* The call passes the threshold of the root logger.
Passes(c) == c.lvl.t = "int" /\ c.lvl.n >= root_level

\* C5: a call whose payload fails validation raises nothing into its
\* caller, writes no wire line, and writes one report to the error channel
\* that names CosmologgerException and ValidationError.
C5_InvalidPayloadIsDiverted ==
    (call # <<>> /\ Passes(call[1]) /\ ~IsPayload(CallPayload(call[1]))) =>
        /\ caller = NoOutcome
        /\ stream = <<>>
        /\ Len(errchan) = 1
        /\ errchan[1].exc = "CosmologgerException"
        /\ errchan[1].args # <<>> /\ errchan[1].args[1] = "ValidationError"

\* The rank the methods of Cosmologger stand for.
MethodRank(m) ==
    CASE m \in {"fatal", "critical"} -> FATAL
      [] m \in {"error", "exception"} -> ERROR
      [] m \in {"warn", "warning"} -> WARN
      [] m = "info" -> INFO
      [] OTHER -> DEBUG

\* C10: the level of every emitted event is one of the ranks, the rank of
\* the method for the methods of Cosmologger; no event is emitted with an
\* absent level.
C10_EmittedLevelIsRank ==
    \A i \in 1..Len(stream) :
        LET lvl == Get(decode(stream[i].doc).items, <<"level">>)
        IN  /\ IsRank(lvl)
            /\ call[1].method \notin {"log", "host"} =>
                 lvl.n = MethodRank(call[1].method)


\* The event of the wire line the last call emitted, and its payload.
Emitted == decode(stream[1].doc).items
EmittedPayload == Get(Emitted, <<"payload">>)
WithoutExcText(p) == PyDict(RemoveKey(p.items, ExcTextKey))
\* The keyword arguments of a call other than `extra` and `exc_info`.
OwnKwargs(c) == PyDict(RemoveKey(RemoveKey(c.kw, <<"extra">>), <<"exc_info">>))

HasMessage(c) == c.args # <<>> /\ Returned(pct_format(Str(Head(c.args)), Tail(c.args)))
Message(c) ==
    IF Tail(c.args) = <<>> THEN Str(Head(c.args))
    ELSE pct_format(Str(Head(c.args)), Tail(c.args)).val[1]
\* The call requests a trace: exc_info is truthy, or the call is exception()
\* without an exc_info.
RequestsTrace(c) ==
    IF HasKey(c.kw, <<"exc_info">>) THEN Truthy(Get(c.kw, <<"exc_info">>))
    ELSE c.method = "exception"

\* C12: the event of a call that requests a trace while an exception is
\* handled has the trace as payload['exc_text'] and the message as format,
\* followed by '\n{exc_text}' unless the message contains '{exc_text}'; the
\* event of a call that requests none has no exc_text in its payload and
\* the message as format.
C12_TraceAttachment ==
    (stream # <<>> /\ call[1].method # "host" /\ HasMessage(call[1])) =>
        /\ (RequestsTrace(call[1]) /\ call[1].handling) =>
             /\ HasKey(EmittedPayload.items, ExcTextKey)
             /\ Get(EmittedPayload.items, ExcTextKey) = PyStr(<<"Traceback">>)
             /\ Get(Emitted, <<"format">>) =
                  PyStr(IF Contains(Message(call[1]), ExcTextField)
                        THEN Message(call[1])
                        ELSE Message(call[1]) \o <<"\n">> \o ExcTextField)
        /\ ~RequestsTrace(call[1]) =>
             /\ ~HasKey(EmittedPayload.items, ExcTextKey)
             /\ Get(Emitted, <<"format">>) = PyStr(Message(call[1]))

\* The caller's `extra` mapping before and after the last call.
ExtraBefore == Get(call[1].kw, <<"extra">>)
ExtraAfter == extra_after[1]
PayloadLeft == Get(ExtraAfter.items, <<"payload">>)

\* C21: after a call on the Cosmologger with extra=X has returned, X has
\* the key 'payload' bound to the payload of the call: its keyword arguments
\* other than extra and exc_info, with exc_text when the formatter attached
\* a trace, which is the payload of the event when one is emitted.  The
\* other keys of X are as they were.  Whatever 'payload' entry X had, from
\* an earlier call or not, neither stays in X nor appears in the event.
C21_ExtraHoldsPayloadOfCall ==
    (/\ call # <<>> /\ call[1].method # "host"
     /\ HasKey(call[1].kw, <<"extra">>)
     /\ caller = NoOutcome) =>
        /\ extra_after # <<>>
        /\ ExtraAfter.t = "dict"
        /\ Keys(ExtraAfter.items) = Keys(ExtraBefore.items) \cup {<<"payload">>}
        /\ \A k \in Keys(ExtraBefore.items) \ {<<"payload">>} :
              Get(ExtraAfter.items, k) = Get(ExtraBefore.items, k)
        /\ PyEq(WithoutExcText(PayloadLeft), OwnKwargs(call[1]))
        /\ HasKey(PayloadLeft.items, ExcTextKey) => RequestsTrace(call[1])
        /\ stream # <<>> =>
              /\ PyEq(PayloadLeft, EmittedPayload)
              /\ PyEq(WithoutExcText(EmittedPayload), OwnKwargs(call[1]))

\* The mapping of a traced call is given again: the earlier payload, with
\* its exc_text, is replaced by the payload of the later call.
C21_Witness ==
    /\ call # <<>> /\ call[1].method = "info"
    /\ HasKey(call[1].kw, <<"extra">>)
    /\ ExtraBefore.t = "dict"
    /\ HasKey(ExtraBefore.items, <<"payload">>)
    /\ HasKey(Get(ExtraBefore.items, <<"payload">>).items, ExcTextKey)
    /\ caller = NoOutcome /\ stream # <<>>
    /\ EmittedPayload = PyDict(<< <<Bb, PyInt(2)>> >>)
    /\ PayloadLeft = PyDict(<< <<Bb, PyInt(2)>> >>)
    /\ HasKey(ExtraAfter.items, <<"user">>)

-----------------------------------------------------------------------------
(* Properties of the rendering scenario. *)
Rendered == pc \in {"shown", "echoed"}

\* The placeholders of a format: the text between an opening brace that no
\* opening brace precedes and the next closing brace.
Placeholders(fmt) ==
    {SubSeq(fmt, i + 1, j - 1) : <<i, j>> \in
        {p \in (1..Len(fmt)) \X (1..Len(fmt)) :
            /\ p[1] < p[2] /\ fmt[p[1]] = "{" /\ fmt[p[2]] = "}"
            /\ (p[1] > 1 => fmt[p[1] - 1] # "{")
            /\ \A k \in (p[1] + 1)..(p[2] - 1) : fmt[k] \notin {"{", "}"}}}

ReferencesAbsentKey(e) ==
    /\ Get(e, <<"format">>).t = "str"
    /\ Placeholders(Get(e, <<"format">>).c) \ Keys(Get(e, <<"payload">>).items) # {}

EndsWith(s, tail) ==
    Len(tail) <= Len(s) /\ SubSeq(s, Len(s) - Len(tail) + 1, Len(s)) = tail

\* C13: for every event whose format references a key absent from its
\* payload, event_format returns a line, and the line ends with the payload
\* part BadLogFormat("<format>") <repr of the payload>.
C13_MissingKeyFallback ==
    (Rendered /\ ReferencesAbsentKey(Event)) =>
        /\ Returned(shown)
        /\ EndsWith(shown.val[1], <<"]", " ">> \o BadLogFormat(Event))

\* Brace text that spells no placeholder: the braces of an embedded JSON
\* object or of the repr of a dict, where a quote follows the brace.
HasLiteralBraceText(fmt) ==
    \E ph \in Placeholders(fmt) : ph # <<>> /\ ph[1] \in {"\"", "'"}

\* C14: an event as a logged message without keyword arguments makes it,
\* with an empty payload and a format that contains literal brace text, is
\* rendered by the human formatter to a line without a BadLogFormat marker.
C14_BraceTextIsNotBad ==
    (/\ Rendered
     /\ Get(Event, <<"payload">>) = PyDict(<<>>)
     /\ Get(Event, <<"format">>).t = "str"
     /\ HasLiteralBraceText(Get(Event, <<"format">>).c)) =>
        /\ Returned(shown)
        /\ ~Contains(shown.val[1], <<"BadLogFormat">>)

Echoed == pc = "echoed"

\* The line passes the verbosity filter of the command.
PassesFilter(e) ==
    IsRank(Get(e, <<"level">>)) /\ Get(e, <<"level">>).n <= verbosity

\* The keys of the payload that the format spells as its one placeholder
PlaceholderKeys(e) ==
    {k \in Keys(Get(e, <<"payload">>).items) :
        Get(e, <<"format">>) = PyStr(<<"{">> \o k \o <<"}">>)}

\* C15: the command replaces a placeholder whose key is in the payload, dots
\* and dashes included, by the value of the key: the line it writes for a
\* format that is one such placeholder ends with the value.
C15_PlaceholderIsWholeKey ==
    (Echoed /\ PassesFilter(Event)) =>
        \A k \in PlaceholderKeys(Event) :
            /\ Returned(echoed)
            /\ Len(echoed.val[1]) = 1
            /\ EndsWith(echoed.val[1][1],
                        <<"]", " ">> \o Str(Get(Get(Event, <<"payload">>).items, k)))

\* C19: for every event line that passes the verbosity filter, the line
\* cli.process writes with --no-color is the line that event_format of a
\* CosmologgerHumanFormatter without color renders for the event.
C19_ProcessIsEventFormat ==
    (Echoed /\ PassesFilter(Event) /\ no_color /\ ~colored) =>
        /\ Returned(shown)
        /\ Returned(echoed)
        /\ echoed.val[1] = <<shown.val[1]>>

Typed(o) == Returned(o) \/ o.exc = "CosmologgerException"

\* C20: for an event of any level, of the six ranks or not, with a format
\* and a payload that render, event_format with color on or off and
\* cli.process return or raise a CosmologgerException.
C20_RenderingTotalOverLevels ==
    (/\ Rendered
     /\ Get(Event, <<"format">>) = PyStr(<<"x">>)
     /\ Get(Event, <<"payload">>) = PyDict(<<>>)) =>
        /\ Typed(shown)
        /\ Echoed => Typed(echoed)

-----------------------------------------------------------------------------
(* Properties of the colors scenario. *)
HasCode(s) == \E i \in 1..Len(COLOR_CODES) : Contains(s, COLOR_CODES[i])

\* C16: _clear_colors is idempotent: its result contains none of the six
\* codes, and a second pass leaves the result as it is.
C16_ClearColorsIdempotent ==
    pc = "twice" => ~HasCode(once[1]) /\ twice = once

-----------------------------------------------------------------------------
(* Properties of the setup scenario. *)
IsValidationError(o) ==
    o.exc = "CosmologgerException" /\ o.args # <<>> /\ o.args[1] = "ValidationError"

\* C17: creating a Cosmologger with a stream name that does not fully match
\* [A-Za-z0-9][A-Za-z0-9._-]+ fails with a CosmologgerException tagged
\* 'ValidationError' and returns no Cosmologger to log with; a creation that
\* fails leaves the registry of the host loggers as it was.
C17_StreamNameValidatedEagerly ==
    [][made'.op = "Cosmologger" =>
        /\ (made'.args[1].t = "str" /\ ~FullyMatchesName(made'.args[1].c))
              => IsValidationError(made'.outcome)
        /\ Raised(made'.outcome) => loggers' = loggers]_vars

C17_Witness ==
    /\ made.op = "Cosmologger"
    /\ made.args[1] = PyStr(<<"a", "%">>)
    /\ IsValidationError(made.outcome)
    /\ loggers = {<<"a", "a">>}

\* C18: setup_logging with an origin that is not a valid origin fails with a
\* CosmologgerException tagged 'ValidationError' and leaves the applied
\* configuration as it was, with and without a custom_config.
C18_OriginValidatedBeforeConfig ==
    [][(/\ made'.op = "setup_logging"
        /\ made'.args[2].t = "str" /\ made'.args[2].c # <<>>
        /\ ~IsOrigin(made'.args[2])) =>
            /\ IsValidationError(made'.outcome)
            /\ config' = config]_vars

====
